---- MODULE Spec2Model ----
(***************************************************************************)
(* Chat pipeline of codebaseqa: the two-tier chat cache (ChatCache), the   *)
(* per-repository admission semaphore and the SSE event stream of          *)
(* send_message, streaming generation with the answer cache, and the      *)
(* retrieval of RAGPipeline (intent, expansion, search, rerank), its        *)
(* context assembly, and the hybrid scoring of ChromaStore.                *)
(*                                                                         *)
(* CacheSpec drives the cache alone (set, get, passage of time); Spec      *)
(* drives concurrent chat requests, which use the answer namespace of the  *)
(* same cache; RerankSpec calls _rerank_chunks on its own; RetrieveSpec    *)
(* follows one call of retrieve step by step and TransparencySpec two      *)
(* calls in a row; CachedAnswerSpec runs one request and one call of       *)
(* generate on a cache that holds an answer; ClassifySpec calls the        *)
(* intent classifier, the query expansion and _build_context on their own; *)
(* HybridSpec calls hybrid_search on its own; CancelSpec runs one chat     *)
(* request over the steps of its retrieval and generation.                 *)
(***************************************************************************)
EXTENDS Integers, Sequences, FiniteSets, TLC

VARIABLES
    \* ---- ChatCache (core/cache/chat_cache.py) ----
    redis_enabled,   \* settings.chat_redis_cache_enabled and self._redis is not None
    redis,           \* the distributed tier: key -> stored payload with expiry
    local,           \* _embed_cache / _retrieval_cache / _answer_cache (TTLCache)
    hits,            \* self._hits
    misses,          \* self._misses
    redis_errors,    \* self._redis_errors
    now,             \* the clock both tiers read
    lastOp,          \* the cache driver's last call and what it returned
    opCount,         \* number of cache calls made by the cache driver
    \* ---- admission and streaming (api/routes/chat.py) ----
    settings,        \* chat_max_concurrent_per_repo, chat_emit_meta_event
    repo_semaphores, \* _repo_semaphores: repo id -> semaphore (0: no entry)
    semaphores,      \* the asyncio.Semaphore objects created so far: their values
    pc,              \* where each request's generate_stream stands
    req_repo,        \* session.repository_id of the request
    req_sem,         \* the local variable semaphore (0: not fetched yet)
    acquired,        \* the local variable acquired
    releases,        \* number of semaphore.release() calls the request made
    events,          \* the SSE events the request has yielded, in order
    waited,          \* the request found no free permit and had to wait
    cancelled,       \* the consumer closed the stream before its end
    timed_out,       \* the request deadline expired during the pipeline
    \* ---- RAGPipeline.generate_stream and the model stream ----
    gen_pc,          \* where the request's rag.generate_stream stands
    pieces,          \* the local variable pieces
    replay,          \* the rest of the cached answer still to replay
    llm_attempt,     \* attempt of OpenAILLM.generate_stream
    llm_yielded,     \* yielded of OpenAILLM.generate_stream
    llm_plan,        \* number of fragments the current model stream holds
    llm_sent,        \* number of fragments the current model stream has delivered
    full_response,   \* the route's local full_response: the fragments received so far
    \* ---- RAGPipeline.generate (non-streaming) ----
    generate_result, \* what the last call of generate returned
    llm_generate_calls, \* number of self._llm.generate calls made by generate
    \* ---- RAGPipeline.retrieve (core/rag/pipeline.py) ----
    ret_pc,          \* where the call of retrieve stands
    ret_args,        \* the arguments query, mode, limit
    intent,          \* the local variable intent
    profile,         \* the local variable profile
    expanded_queries, \* the local variable expanded_queries
    ret_next,        \* index of the expanded query the loop is at
    all_chunks,      \* the local dict all_chunks, in insertion order
    chunks,          \* the local variable chunks
    cache_hit,       \* the local variable cache_hit
    reranked,        \* the local variable reranked
    calls,           \* the collaborator and cache calls the request made, in order
    ret_result,      \* what retrieve returned: the selection and the diagnostics
    \* ---- RAGPipeline._rerank_chunks, the last call ----
    rerank_input,    \* the argument chunks
    rerank_response, \* the response of self._llm.generate
    rerank_output,   \* the list returned
    \* ---- RAGPipeline._build_context, the last call ----
    context_args,    \* the arguments chunks, max_chars
    context,         \* the string returned, as its lines
    \* ---- ChromaStore.hybrid_search, the last call ----
    hybrid_args,     \* query_text, limit, profile, path_allowlist; what self.search returns
    boosted          \* the list returned

cacheVars == <<redis_enabled, redis, local, hits, misses, redis_errors, now, lastOp, opCount>>

admissionVars == <<settings, repo_semaphores, semaphores, pc, req_repo, req_sem,
                   acquired, releases, events, waited, cancelled, timed_out>>
genVars == <<gen_pc, pieces, replay, llm_attempt, llm_yielded, llm_plan, llm_sent>>
chatVars == <<admissionVars, genVars>>
answerVars == <<full_response, generate_result, llm_generate_calls>>
retrVars == <<ret_pc, ret_args, intent, profile, expanded_queries, ret_next, all_chunks,
              chunks, cache_hit, reranked, calls, ret_result>>
rerankVars == <<rerank_input, rerank_response, rerank_output>>
assembleVars == <<context_args, context>>
scoreVars == <<hybrid_args, boosted>>
pipelineVars == <<retrVars, rerankVars, assembleVars, scoreVars>>
vars == <<cacheVars, chatVars, answerVars, pipelineVars>>

(***************************************************************************)
(* Bounds of the model.                                                    *)
(***************************************************************************)
MaxPermitSetting == 1    \* largest chat_max_concurrent_per_repo tried (from 0)
MaxFragments == 1        \* fragments of one model stream
MaxOps == 3          \* cache calls per behaviour of CacheSpec
MaxTime == 3         \* ticks of the clock
EmbedTtlTicks == 2       \* settings.chat_embed_cache_ttl_seconds, in ticks
RetrievalTtlTicks == 1   \* settings.chat_retrieval_cache_ttl_seconds, in ticks
AnswerTtlTicks == 2      \* settings.chat_answer_cache_ttl_seconds, in ticks

Max(a, b) == IF a >= b THEN a ELSE b
Range(f) == {f[i] : i \in DOMAIN f}

Namespaces == {"embedding", "retrieval", "answer"}

\* Repository ids.  A cache key is the namespace prefix plus the digest of the
\* key fields; the model's payloads differ in one field, named by a repo id.
Repos == {"repo-1", "repo-2"}
Digests == Repos

\* Cached values: short texts (sequences of characters).
Chars == {"a", "b"}
Values == {<<c>> : c \in Chars}

\* settings.chat_*_cache_ttl_seconds
TtlSetting(ns) ==
    CASE ns = "embedding" -> EmbedTtlTicks
      [] ns = "retrieval" -> RetrievalTtlTicks
      [] ns = "answer" -> AnswerTtlTicks

\* An absent entry of either tier.
NoEntry == [present |-> FALSE, value |-> <<>>, expires |-> 0]

\* The result of a lookup: None, or a value.
None == [some |-> FALSE, value |-> <<>>]
Some(v) == [some |-> TRUE, value |-> v]

\* json.dumps / json.loads of a cached value (a str, a list of floats or a list
\* of dicts of JSON-native fields): the payload is text, loads gives back the
\* value it encodes.
JsonDumps(v) == <<"json", v>>
JsonLoads(p) == p[2]

\* _key_embedding / _key_retrieval / _key_answer: "chat:<namespace>:<digest>"
CacheKey(ns, d) == <<ns, d>>
CacheKeys == Namespaces \X Digests

\* ChatCache._redis_get.  fails: the redis call raises.
RedisGet(key, fails) ==
    IF ~redis_enabled THEN None
    ELSE IF fails THEN None
    ELSE IF ~(redis[key].present /\ now < redis[key].expires) THEN None
    ELSE Some(JsonLoads(redis[key].value))

\* ChatCache._redis_get / _redis_set: the except branch counts the error.
RedisErrorsAfter(fails) ==
    IF redis_enabled /\ fails THEN redis_errors + 1 ELSE redis_errors

\* ChatCache._redis_set: SET key payload EX max(1, ttl_seconds), best effort.
RedisAfterSet(key, v, ttl, fails) ==
    IF ~redis_enabled \/ fails THEN redis
    ELSE [redis EXCEPT ![key] =
            [present |-> TRUE, value |-> JsonDumps(v), expires |-> now + Max(1, ttl)]]

\* ChatCache._local_get: TTLCache.get, a miss once the entry's time is up.
LocalGet(ns, d) ==
    IF local[ns][d].present /\ now < local[ns][d].expires
    THEN Some(local[ns][d].value)
    ELSE None

\* ChatCache._local_set: TTLCache.__setitem__ drops the expired entries of the
\* cache and stores the value with expiry now + ttl, ttl = max(1, setting).
LocalAfterSet(ns, d, v) ==
    [local EXCEPT ![ns] =
        [x \in DOMAIN local[ns] |->
            IF x = d
            THEN [present |-> TRUE, value |-> v, expires |-> now + Max(1, TtlSetting(ns))]
            ELSE IF local[ns][x].present /\ now < local[ns][x].expires
                 THEN local[ns][x]
                 ELSE NoEntry]]

\* get_embedding / get_retrieval / get_answer: the value returned.
CacheLookup(ns, d, fails) ==
    LET rv == RedisGet(CacheKey(ns, d), fails)
    IN  IF rv.some THEN rv ELSE LocalGet(ns, d)

\* get_embedding / get_retrieval / get_answer: the call's effect on the cache.
CacheGetMutantBackfill(ns, d, fails) ==
    LET rv == RedisGet(CacheKey(ns, d), fails)
        value == CacheLookup(ns, d, fails)
    IN  /\ hits' = IF value.some THEN hits + 1 ELSE hits
        /\ misses' = IF value.some THEN misses ELSE misses + 1
        /\ redis_errors' = RedisErrorsAfter(fails)
        /\ local' = IF rv.some THEN LocalAfterSet(ns, d, rv.value) ELSE local
        /\ UNCHANGED <<redis_enabled, redis, now>>

CacheGet(ns, d, fails) ==
    LET value == CacheLookup(ns, d, fails)
    IN  /\ hits' = IF value.some THEN hits + 1 ELSE hits
        /\ misses' = IF value.some THEN misses ELSE misses + 1
        /\ redis_errors' = RedisErrorsAfter(fails)
        /\ UNCHANGED <<redis_enabled, redis, local, now>>

\* set_embedding / set_retrieval / set_answer: in-process tier first, then the
\* distributed tier, best effort.
CacheSetMutantRedisFirst(ns, d, v, fails) ==
    /\ local' = IF redis_enabled /\ fails THEN local ELSE LocalAfterSet(ns, d, v)
    /\ redis' = RedisAfterSet(CacheKey(ns, d), v, TtlSetting(ns), fails)
    /\ redis_errors' = RedisErrorsAfter(fails)
    /\ UNCHANGED <<redis_enabled, hits, misses, now>>

CacheSet(ns, d, v, fails) ==
    /\ local' = LocalAfterSet(ns, d, v)
    /\ redis' = RedisAfterSet(CacheKey(ns, d), v, TtlSetting(ns), fails)
    /\ redis_errors' = RedisErrorsAfter(fails)
    /\ UNCHANGED <<redis_enabled, hits, misses, now>>

\* No cache call was the last step.
NoOp == [op |-> "none", ns |-> "answer", digest |-> "repo-1", value |-> <<>>,
         hit |-> FALSE, redis_hit |-> FALSE, failed |-> FALSE]

\* ChatCache.__init__
CacheInit ==
    /\ redis = [k \in CacheKeys |-> NoEntry]
    /\ local = [ns \in Namespaces |-> [d \in Digests |-> NoEntry]]
    /\ hits = 0
    /\ misses = 0
    /\ redis_errors = 0
    /\ now = 0
    /\ lastOp = NoOp
    /\ opCount = 0

(***************************************************************************)
(* Admission control and the event stream: send_message.generate_stream.   *)
(***************************************************************************)
\* The chat requests of a behaviour of Spec.
Reqs == {"req-1", "req-2"}

\* OpenAILLM.__init__: self._max_retries
MaxRetries == 3

\* RAGPipeline.generate_stream: the replay of a cached answer, 320 characters
\* a fragment.
ReplayFragmentChars == 320

\* The characters of model output, and the marker of the inline error
\* fragment "\n\n[Error: ...]".
LlmChar == "a"
ErrorFragment == <<"E">>

\* An SSE event: its "type" and, for an error, its "code".
Event(type, code) == [type |-> type, code |-> code]
SourcesEvent == Event("sources", "")
MetaEvent == Event("meta", "")
ContentEvent == Event("content", "")
DoneEvent == Event("done", "")
BusyErrorMutantTimeoutCode == Event("error", "CHAT_REQUEST_TIMEOUT")
BusyError == Event("error", "CHAT_REPO_CONCURRENCY_LIMIT")
TimeoutErrorMutantGenerationCode == Event("error", "CHAT_GENERATION_ERROR")
TimeoutError == Event("error", "CHAT_REQUEST_TIMEOUT")
GenerationErrorMutantNoCode == Event("error", "")
GenerationError == Event("error", "CHAT_GENERATION_ERROR")

\* max(1, settings.chat_max_concurrent_per_repo)
Permits == Max(1, settings.chat_max_concurrent_per_repo)

\* _get_repo_semaphore: the semaphore of the repository, created on first use.
\* The result is its index in semaphores; Len(semaphores) + 1 is a new one.
GetRepoSemaphoreMutantAlwaysNew(repo) == Len(semaphores) + 1

GetRepoSemaphore(repo) ==
    IF repo_semaphores[repo] = 0
    THEN Len(semaphores) + 1
    ELSE repo_semaphores[repo]

\* semaphores after _get_repo_semaphore returned sid.
WithSemaphore(sid) ==
    IF sid > Len(semaphores) THEN Append(semaphores, Permits) ELSE semaphores

Emit(r, e) == events' = [events EXCEPT ![r] = Append(@, e)]

\* The finally clause of generate_stream: release only what was acquired.
FinallyMutantNeverRelease(r) ==
    UNCHANGED <<semaphores, releases>>

Finally(r) ==
    IF acquired[r]
    THEN /\ semaphores' = [semaphores EXCEPT ![req_sem[r]] = @ + 1]
         /\ releases' = [releases EXCEPT ![r] = @ + 1]
    ELSE UNCHANGED <<semaphores, releases>>

\* The locals of the request's rag.generate_stream and of the model stream
\* under it are gone once the generators are finalized.
GenDropped(r, state) ==
    /\ gen_pc' = [gen_pc EXCEPT ![r] = state]
    /\ pieces' = [pieces EXCEPT ![r] = <<>>]
    /\ replay' = [replay EXCEPT ![r] = <<>>]
    /\ llm_attempt' = [llm_attempt EXCEPT ![r] = 0]
    /\ llm_yielded' = [llm_yielded EXCEPT ![r] = FALSE]
    /\ llm_plan' = [llm_plan EXCEPT ![r] = 0]
    /\ llm_sent' = [llm_sent EXCEPT ![r] = 0]

\* send_message is called for a session of repository repo and its stream is
\* started: the semaphore is fetched and acquire() returns at once when a
\* permit is free, else the request waits inside wait_for.
Start(r, repo) ==
    /\ pc[r] = "init"
    /\ LET sid == GetRepoSemaphore(repo)
           sems == WithSemaphore(sid)
       IN  /\ repo_semaphores' = [repo_semaphores EXCEPT ![repo] = sid]
           /\ req_repo' = [req_repo EXCEPT ![r] = repo]
           /\ req_sem' = [req_sem EXCEPT ![r] = sid]
           /\ IF sems[sid] > 0
              THEN /\ semaphores' = [sems EXCEPT ![sid] = @ - 1]
                   /\ acquired' = [acquired EXCEPT ![r] = TRUE]
                   /\ pc' = [pc EXCEPT ![r] = "retrieve"]
                   /\ UNCHANGED waited
              ELSE /\ semaphores' = sems
                   /\ pc' = [pc EXCEPT ![r] = "acquiring"]
                   /\ waited' = [waited EXCEPT ![r] = TRUE]
                   /\ UNCHANGED acquired
    /\ UNCHANGED <<settings, releases, events, cancelled, timed_out, genVars, cacheVars, answerVars, pipelineVars>>

\* A permit was released while the request waited: semaphore.acquire() returns.
Acquire(r) ==
    /\ pc[r] = "acquiring"
    /\ semaphores[req_sem[r]] > 0
    /\ semaphores' = [semaphores EXCEPT ![req_sem[r]] = @ - 1]
    /\ acquired' = [acquired EXCEPT ![r] = TRUE]
    /\ pc' = [pc EXCEPT ![r] = "retrieve"]
    /\ UNCHANGED <<settings, repo_semaphores, req_repo, req_sem, releases, events,
                   waited, cancelled, timed_out, genVars, cacheVars, answerVars, pipelineVars>>

\* No permit came free within chat_concurrency_wait_seconds: wait_for raises
\* TimeoutError, the busy error is yielded and the generator returns.
WaitTimeoutMutantAnyTime(r) ==
    /\ pc[r] = "acquiring"
    /\ Emit(r, BusyError)
    /\ pc' = [pc EXCEPT ![r] = "terminal"]
    /\ UNCHANGED <<settings, repo_semaphores, semaphores, req_repo, req_sem, acquired,
                   releases, waited, cancelled, timed_out, genVars, cacheVars, answerVars, pipelineVars>>

WaitTimeout(r) ==
    /\ pc[r] = "acquiring"
    /\ semaphores[req_sem[r]] = 0
    /\ Emit(r, BusyError)
    /\ pc' = [pc EXCEPT ![r] = "terminal"]
    /\ UNCHANGED <<settings, repo_semaphores, semaphores, req_repo, req_sem, acquired,
                   releases, waited, cancelled, timed_out, genVars, cacheVars, answerVars, pipelineVars>>

\* rag.retrieve returns (the sources event is yielded) or raises.
Retrieve(r, ok) ==
    /\ pc[r] = "retrieve"
    /\ IF ok
       THEN /\ Emit(r, SourcesEvent)
            /\ pc' = [pc EXCEPT ![r] = "sources"]
       ELSE /\ Emit(r, GenerationError)
            /\ pc' = [pc EXCEPT ![r] = "terminal"]
    /\ UNCHANGED <<settings, repo_semaphores, semaphores, req_repo, req_sem, acquired,
                   releases, waited, cancelled, timed_out, genVars, cacheVars, answerVars, pipelineVars>>

\* Resumed after the sources event: the meta event when chat_emit_meta_event,
\* then the loop over rag.generate_stream begins.
AfterSources(r) ==
    /\ pc[r] = "sources"
    /\ IF settings.chat_emit_meta_event
       THEN Emit(r, MetaEvent)
       ELSE UNCHANGED events
    /\ pc' = [pc EXCEPT ![r] = "generating"]
    /\ gen_pc' = [gen_pc EXCEPT ![r] = "lookup"]
    /\ UNCHANGED <<settings, repo_semaphores, semaphores, req_repo, req_sem, acquired,
                   releases, waited, cancelled, timed_out, pieces, replay,
                   llm_attempt, llm_yielded, llm_plan, llm_sent, cacheVars, answerVars, pipelineVars>>

\* asyncio.timeout(chat_request_timeout_seconds) expires while retrieve or the
\* next fragment is awaited: the awaited call is cancelled, TimeoutError is
\* caught and the timeout error is yielded.
DeadlineTimeout(r) ==
    /\ pc[r] \in {"retrieve", "generating"}
    /\ Emit(r, TimeoutError)
    /\ pc' = [pc EXCEPT ![r] = "terminal"]
    /\ GenDropped(r, IF pc[r] = "generating" THEN "aborted" ELSE gen_pc[r])
    /\ timed_out' = [timed_out EXCEPT ![r] = TRUE]
    /\ UNCHANGED <<settings, repo_semaphores, semaphores, req_repo, req_sem, acquired,
                   releases, waited, cancelled, cacheVars, answerVars, pipelineVars>>

\* The consumer stops reading (the client disconnects, the response task is
\* cancelled): CancelledError or GeneratorExit is raised at the await or the
\* yield the generator is suspended at; only the finally clause runs.
CancelMutantAbsorbed(r) ==
    /\ pc[r] \in {"acquiring", "retrieve", "sources", "generating"}
    /\ cancelled' = [cancelled EXCEPT ![r] = TRUE]
    /\ UNCHANGED <<settings, repo_semaphores, semaphores, pc, req_repo, req_sem, acquired,
                   releases, events, waited, timed_out, genVars, cacheVars, answerVars,
                   pipelineVars>>

Cancel(r) ==
    /\ pc[r] \in {"acquiring", "retrieve", "sources", "generating"}
    /\ cancelled' = [cancelled EXCEPT ![r] = TRUE]
    /\ Finally(r)
    /\ pc' = [pc EXCEPT ![r] = "closed"]
    /\ GenDropped(r, IF pc[r] = "generating" THEN "aborted" ELSE gen_pc[r])
    /\ full_response' = [full_response EXCEPT ![r] = <<>>]
    /\ UNCHANGED <<settings, repo_semaphores, req_repo, req_sem, acquired, events,
                   waited, timed_out, cacheVars, generate_result,
                   llm_generate_calls, pipelineVars>>

\* Resumed after the done or error event: the generator ends through finally.
Close(r) ==
    /\ pc[r] = "terminal"
    /\ Finally(r)
    /\ pc' = [pc EXCEPT ![r] = "closed"]
    /\ GenDropped(r, gen_pc[r])
    /\ full_response' = [full_response EXCEPT ![r] = <<>>]
    /\ UNCHANGED <<settings, repo_semaphores, req_repo, req_sem, acquired, events,
                   waited, cancelled, timed_out, cacheVars, generate_result,
                   llm_generate_calls, pipelineVars>>

(***************************************************************************)
(* RAGPipeline.generate_stream over OpenAILLM.generate_stream.             *)
(***************************************************************************)
\* "".join(pieces)
RECURSIVE Join(_)
Join(ps) == IF ps = <<>> THEN <<>> ELSE Head(ps) \o Join(Tail(ps))

\* text[:n]
TakeChars(text, n) ==
    IF Len(text) <= n THEN text ELSE SubSeq(text, 1, n)

\* text[n:]
DropChars(text, n) ==
    IF Len(text) <= n THEN <<>> ELSE SubSeq(text, n + 1, Len(text))

\* _key_answer: the requests of the model ask one question, so the digest of
\* the key names the repository.
AnswerDigest(r) == req_repo[r]

\* _get_cached_answer, then on a hit the replay begins and on a miss
\* _build_messages and the first attempt of the model stream, which holds n
\* fragments.
GenLookup(r, fails, n) ==
    /\ pc[r] = "generating"
    /\ gen_pc[r] = "lookup"
    /\ fails => redis_enabled
    /\ CacheGet("answer", AnswerDigest(r), fails)
    /\ LET cached == CacheLookup("answer", AnswerDigest(r), fails)
       IN  IF cached.some
           THEN /\ n = 0
                /\ replay' = [replay EXCEPT ![r] = cached.value]
                /\ gen_pc' = [gen_pc EXCEPT ![r] = "replay"]
                /\ UNCHANGED <<llm_attempt, llm_yielded, llm_plan, llm_sent>>
           ELSE /\ gen_pc' = [gen_pc EXCEPT ![r] = "llm"]
                /\ llm_attempt' = [llm_attempt EXCEPT ![r] = 0]
                /\ llm_yielded' = [llm_yielded EXCEPT ![r] = FALSE]
                /\ llm_plan' = [llm_plan EXCEPT ![r] = n]
                /\ llm_sent' = [llm_sent EXCEPT ![r] = 0]
                /\ UNCHANGED replay
    /\ UNCHANGED <<admissionVars, pieces, opCount, lastOp, answerVars, pipelineVars>>

\* The replay of the cached answer: the next 320 characters are yielded.
ReplayNextMutantWholeText(r) ==
    /\ pc[r] = "generating"
    /\ gen_pc[r] = "replay"
    /\ replay[r] # <<>>
    /\ replay' = [replay EXCEPT ![r] = <<>>]
    /\ full_response' = [full_response EXCEPT ![r] = @ \o replay[r]]
    /\ Emit(r, ContentEvent)
    /\ UNCHANGED <<settings, repo_semaphores, semaphores, pc, req_repo, req_sem,
                   acquired, releases, waited, cancelled, timed_out, gen_pc, pieces,
                   llm_attempt, llm_yielded, llm_plan, llm_sent, cacheVars, generate_result,
                   llm_generate_calls, pipelineVars>>

ReplayNext(r) ==
    /\ pc[r] = "generating"
    /\ gen_pc[r] = "replay"
    /\ replay[r] # <<>>
    /\ replay' = [replay EXCEPT ![r] = DropChars(@, ReplayFragmentChars)]
    /\ full_response' = [full_response EXCEPT ![r] = @ \o TakeChars(replay[r], ReplayFragmentChars)]
    /\ Emit(r, ContentEvent)
    /\ UNCHANGED <<settings, repo_semaphores, semaphores, pc, req_repo, req_sem,
                   acquired, releases, waited, cancelled, timed_out, gen_pc, pieces,
                   llm_attempt, llm_yielded, llm_plan, llm_sent, cacheVars, generate_result,
                   llm_generate_calls, pipelineVars>>

\* The model stream delivers its next fragment: OpenAILLM yields it,
\* rag.generate_stream appends it to pieces and yields it, the route yields
\* the content event.
LlmFragment(r) ==
    /\ pc[r] = "generating"
    /\ gen_pc[r] = "llm"
    /\ llm_sent[r] < llm_plan[r]
    /\ llm_sent' = [llm_sent EXCEPT ![r] = @ + 1]
    /\ llm_yielded' = [llm_yielded EXCEPT ![r] = TRUE]
    /\ pieces' = [pieces EXCEPT ![r] = Append(@, <<LlmChar>>)]
    /\ full_response' = [full_response EXCEPT ![r] = @ \o <<LlmChar>>]
    /\ Emit(r, ContentEvent)
    /\ UNCHANGED <<settings, repo_semaphores, semaphores, pc, req_repo, req_sem,
                   acquired, releases, waited, cancelled, timed_out, gen_pc, replay,
                   llm_attempt, llm_plan, cacheVars, generate_result,
                   llm_generate_calls, pipelineVars>>

\* OpenAILLM.generate_stream: should_retry
ShouldRetryMutantIgnoreYielded(r) == llm_attempt[r] < MaxRetries - 1

ShouldRetry(r) == llm_attempt[r] < MaxRetries - 1 /\ ~llm_yielded[r]

\* The model call or its stream raises: a new attempt (a stream of n
\* fragments) while should_retry, else the inline error fragment is yielded
\* and OpenAILLM.generate_stream returns.
LlmFail(r, n) ==
    /\ pc[r] = "generating"
    /\ gen_pc[r] = "llm"
    /\ IF ShouldRetry(r)
       THEN /\ llm_attempt' = [llm_attempt EXCEPT ![r] = @ + 1]
            /\ llm_plan' = [llm_plan EXCEPT ![r] = n]
            /\ llm_sent' = [llm_sent EXCEPT ![r] = 0]
            /\ UNCHANGED <<gen_pc, pieces, events, full_response>>
       ELSE /\ n = 0
            /\ pieces' = [pieces EXCEPT ![r] = Append(@, ErrorFragment)]
            /\ full_response' = [full_response EXCEPT ![r] = @ \o ErrorFragment]
            /\ Emit(r, ContentEvent)
            /\ gen_pc' = [gen_pc EXCEPT ![r] = "llm_returned"]
            /\ UNCHANGED <<llm_attempt, llm_plan, llm_sent>>
    /\ UNCHANGED <<settings, repo_semaphores, semaphores, pc, req_repo, req_sem,
                   acquired, releases, waited, cancelled, timed_out, replay,
                   llm_yielded, cacheVars, generate_result,
                   llm_generate_calls, pipelineVars>>

\* rag.generate_stream has nothing more to yield: the replay is over, the
\* model stream ended, or OpenAILLM returned after its error fragment.
GenExhausted(r) ==
    \/ gen_pc[r] = "replay" /\ replay[r] = <<>>
    \/ gen_pc[r] = "llm" /\ llm_sent[r] = llm_plan[r]
    \/ gen_pc[r] = "llm_returned"

\* The end of rag.generate_stream after the loop over the model stream:
\* if pieces: _set_cached_answer("".join(pieces)).
SetCachedAnswer(r, fails) ==
    IF gen_pc[r] \in {"llm", "llm_returned"} /\ pieces[r] # <<>>
    THEN /\ CacheSet("answer", AnswerDigest(r), Join(pieces[r]), fails)
         /\ UNCHANGED <<opCount, lastOp>>
    ELSE /\ ~fails
         /\ UNCHANGED cacheVars

\* rag.generate_stream ends; the route stores the assistant message and
\* yields done, or db.commit() raises and the generation error is yielded.
GenEnd(r, fails, commit_ok) ==
    /\ pc[r] = "generating"
    /\ GenExhausted(r)
    /\ fails => redis_enabled
    /\ SetCachedAnswer(r, fails)
    /\ gen_pc' = [gen_pc EXCEPT ![r] = "finished"]
    /\ Emit(r, IF commit_ok THEN DoneEvent ELSE GenerationError)
    /\ pc' = [pc EXCEPT ![r] = "terminal"]
    /\ llm_attempt' = [llm_attempt EXCEPT ![r] = 0]
    /\ llm_yielded' = [llm_yielded EXCEPT ![r] = FALSE]
    /\ llm_plan' = [llm_plan EXCEPT ![r] = 0]
    /\ llm_sent' = [llm_sent EXCEPT ![r] = 0]
    /\ UNCHANGED <<settings, repo_semaphores, semaphores, req_repo, req_sem, acquired,
                   releases, waited, cancelled, timed_out, pieces, replay,
                   answerVars, pipelineVars>>

(***************************************************************************)
(* The specification of concurrent chat requests.                          *)
(***************************************************************************)
ChatInit ==
    /\ repo_semaphores = [repo \in Repos |-> 0]
    /\ semaphores = <<>>
    /\ pc = [r \in Reqs |-> "init"]
    /\ req_repo = [r \in Reqs |-> "repo-1"]
    /\ req_sem = [r \in Reqs |-> 0]
    /\ acquired = [r \in Reqs |-> FALSE]
    /\ releases = [r \in Reqs |-> 0]
    /\ events = [r \in Reqs |-> <<>>]
    /\ waited = [r \in Reqs |-> FALSE]
    /\ cancelled = [r \in Reqs |-> FALSE]
    /\ timed_out = [r \in Reqs |-> FALSE]
    /\ gen_pc = [r \in Reqs |-> "none"]
    /\ pieces = [r \in Reqs |-> <<>>]
    /\ replay = [r \in Reqs |-> <<>>]
    /\ llm_attempt = [r \in Reqs |-> 0]
    /\ llm_yielded = [r \in Reqs |-> FALSE]
    /\ llm_plan = [r \in Reqs |-> 0]
    /\ llm_sent = [r \in Reqs |-> 0]
    /\ full_response = [r \in Reqs |-> <<>>]

\* No call of RAGPipeline.generate has been made.
GenerateIdle ==
    /\ generate_result = None
    /\ llm_generate_calls = 0

\* No call of RAGPipeline.retrieve is under way.
RetrieveIdle ==
    /\ ret_pc = "idle"
    /\ ret_args = [query |-> <<>>, mode |-> "auto", limit |-> 0]
    /\ intent = "implementation"
    /\ profile = "code_first"
    /\ expanded_queries = <<>>
    /\ ret_next = 0
    /\ all_chunks = <<>>
    /\ chunks = <<>>
    /\ cache_hit = FALSE
    /\ reranked = FALSE
    /\ calls = <<>>
    /\ ret_result = None

\* No call of _rerank_chunks has been made.
RerankIdle ==
    /\ rerank_input = <<>>
    /\ rerank_response = None
    /\ rerank_output = None

\* Neither _build_context nor hybrid_search has been called.
StagesIdle ==
    /\ context_args = [chunks |-> <<>>, max_chars |-> 0]
    /\ context = None
    /\ hybrid_args = [query_text |-> <<>>, limit |-> 0, profile |-> "balanced",
                      path_allowlist |-> <<>>, results |-> <<>>]
    /\ boosted = None

\* The default configuration of the cache: chat_redis_cache_enabled is False
\* (CacheSpec covers the distributed tier).
Init ==
    /\ redis_enabled = FALSE
    /\ CacheInit
    /\ ChatInit
    /\ GenerateIdle
    /\ RetrieveIdle
    /\ RerankIdle
    /\ StagesIdle
    /\ settings \in [chat_max_concurrent_per_repo : 0..MaxPermitSetting,
                     chat_emit_meta_event : BOOLEAN]

Next ==
    \/ \E r \in Reqs, repo \in Repos : Start(r, repo)
    \/ \E r \in Reqs : Acquire(r)
    \/ \E r \in Reqs : WaitTimeout(r)
    \/ \E r \in Reqs, ok \in BOOLEAN : Retrieve(r, ok)
    \/ \E r \in Reqs : AfterSources(r)
    \/ \E r \in Reqs : DeadlineTimeout(r)
    \/ \E r \in Reqs : Cancel(r)
    \/ \E r \in Reqs : Close(r)
    \/ \E r \in Reqs, fails \in BOOLEAN, n \in 0..MaxFragments : GenLookup(r, fails, n)
    \/ \E r \in Reqs : ReplayNext(r)
    \/ \E r \in Reqs : LlmFragment(r)
    \/ \E r \in Reqs, n \in 0..MaxFragments : LlmFail(r, n)
    \/ \E r \in Reqs, fails \in BOOLEAN, commit_ok \in BOOLEAN : GenEnd(r, fails, commit_ok)

Spec == Init /\ [][Next]_vars

(***************************************************************************)
(* Properties of admission and of the event stream, checked under Spec.    *)
(***************************************************************************)
Started(r) == pc[r] # "init"
OnRepo(repo) == {r \in Reqs : Started(r) /\ req_repo[r] = repo}

\* The request has acquired the permit and not yet released it.
Holding(r) == acquired[r] /\ releases[r] = 0
Holders(repo) == {r \in OnRepo(repo) : Holding(r)}

\* The request's wait for the permit ended with the wait timeout.
Rejected(r) ==
    waited[r] /\ ~acquired[r] /\ ~cancelled[r] /\ pc[r] \in {"terminal", "closed"}

Types(r) == [i \in 1..Len(events[r]) |-> events[r][i].type]
Has(r, type) == \E i \in 1..Len(events[r]) : events[r][i].type = type
ErrorCodes == {"CHAT_REPO_CONCURRENCY_LIMIT", "CHAT_REQUEST_TIMEOUT", "CHAT_GENERATION_ERROR"}

\* C1: for every repository, the requests that acquired the permit and have not
\* released it are never more than N = max(1, chat_max_concurrent_per_repo);
\* the semaphore of a repository exists from its first request on and all the
\* requests of the repository use that one semaphore.
C1_AdmissionBound ==
    /\ \A repo \in Repos :
          /\ Cardinality(Holders(repo)) <= Max(1, settings.chat_max_concurrent_per_repo)
          /\ (repo_semaphores[repo] = 0) <=> (OnRepo(repo) = {})
          /\ \A r \in OnRepo(repo) : req_sem[r] = repo_semaphores[repo]
    /\ \A r1, r2 \in Reqs :
          (Started(r1) /\ Started(r2) /\ req_repo[r1] # req_repo[r2])
              => req_sem[r1] # req_sem[r2]

\* Two requests of one repository, one holding the last permit, one waiting.
C1_Witness ==
    \E r1, r2 \in Reqs :
        /\ r1 # r2
        /\ Started(r1) /\ Started(r2)
        /\ req_repo[r1] = req_repo[r2]
        /\ Holding(r1)
        /\ Cardinality(Holders(req_repo[r1])) = Max(1, settings.chat_max_concurrent_per_repo)
        /\ pc[r2] = "acquiring"

\* C2: a request releases the permit at most once and only if it acquired it;
\* a request that has ended has released it exactly once if it acquired it
\* and never otherwise, whatever the exit path; once all the requests of a
\* repository have ended, the semaphore is back at N.
C2_ReleasedExactlyOnce ==
    /\ \A r \in Reqs :
          /\ releases[r] <= 1
          /\ releases[r] = 1 => acquired[r]
          /\ pc[r] = "closed" => releases[r] = (IF acquired[r] THEN 1 ELSE 0)
    /\ \A repo \in Repos :
          (OnRepo(repo) # {} /\ \A r \in OnRepo(repo) : pc[r] = "closed")
              => semaphores[repo_semaphores[repo]]
                    = Max(1, settings.chat_max_concurrent_per_repo)

\* Both requests of a repository have ended, one by a client cancellation while
\* it held the permit, the other by the deadline after it had waited.
C2_Witness ==
    \E r1, r2 \in Reqs :
        /\ r1 # r2
        /\ pc[r1] = "closed" /\ pc[r2] = "closed"
        /\ req_repo[r1] = req_repo[r2]
        /\ cancelled[r1] /\ acquired[r1]
        /\ waited[r2] /\ timed_out[r2]

\* C3: a request whose wait for the permit timed out has the busy error as its
\* whole stream, has started no retrieval or generation, never acquired and
\* never releases; the semaphore counts the permits of the holders only.
C3_BusyRejection ==
    /\ \A r \in Reqs :
          Rejected(r) =>
              /\ events[r] = <<Event("error", "CHAT_REPO_CONCURRENCY_LIMIT")>>
              /\ gen_pc[r] = "none"
              /\ releases[r] = 0
              /\ ~Holding(r)
    /\ \A repo \in Repos :
          OnRepo(repo) # {} =>
              semaphores[repo_semaphores[repo]] + Cardinality(Holders(repo))
                  = Max(1, settings.chat_max_concurrent_per_repo)

\* A request was rejected and its stream has ended while the other request of
\* the repository still holds the permit.
C3_Witness ==
    \E r1, r2 \in Reqs :
        /\ Rejected(r1) /\ pc[r1] = "closed"
        /\ Started(r2) /\ req_repo[r2] = req_repo[r1] /\ Holding(r2)

\* C4: a request whose deadline expired during retrieval or generation had
\* acquired the permit, its stream ends with the error CHAT_REQUEST_TIMEOUT
\* (neither the busy nor the generation code), that error is its only terminal
\* event, it has no done event, and the generation under way was dropped.
C4_DeadlineTimeout ==
    \A r \in Reqs :
        timed_out[r] =>
            /\ acquired[r]
            /\ events[r] # <<>>
            /\ events[r][Len(events[r])].type = "error"
            /\ events[r][Len(events[r])].code = "CHAT_REQUEST_TIMEOUT"
            /\ events[r][Len(events[r])].code
                  \notin {"CHAT_REPO_CONCURRENCY_LIMIT", "CHAT_GENERATION_ERROR"}
            /\ ~Has(r, "done")
            /\ \A i \in 1..(Len(events[r]) - 1) : events[r][i].type # "error"
            /\ gen_pc[r] \in {"none", "aborted"}
            /\ pieces[r] = <<>>

\* The deadline expired during generation, after a content event.
C4_Witness ==
    \E r \in Reqs :
        /\ timed_out[r]
        /\ Has(r, "sources") /\ Has(r, "content")
        /\ gen_pc[r] = "aborted"
        /\ pc[r] = "closed"

\* C5 as stated: when N+1 requests of a repository were in flight together
\* (one of them had to wait) and all have ended, none by a client
\* cancellation, at least one of them was rejected with the busy code.
C5_SomeRequestRejected ==
    \A repo \in Repos :
        ( /\ Cardinality(OnRepo(repo)) = Max(1, settings.chat_max_concurrent_per_repo) + 1
          /\ \E r \in OnRepo(repo) : waited[r]
          /\ \A r \in OnRepo(repo) : pc[r] = "closed" /\ ~cancelled[r] )
        => \E r \in OnRepo(repo) :
              Event("error", "CHAT_REPO_CONCURRENCY_LIMIT") \in Range(events[r])

\* C5 amended: a request has to wait exactly when the N permits of its
\* repository are held by other requests; a waiting request is rejected with
\* the busy code, as its only event, only while all N permits are still held
\* by others, and it leaves the wait with the permit, and no event, only once
\* one of them has been released.
C5_RejectedOnlyWhileAllHeld ==
    [][\A r \in Reqs :
          LET others == Holders(req_repo'[r]) \ {r}
              N == Max(1, settings.chat_max_concurrent_per_repo)
          IN  /\ (pc[r] = "init" /\ pc'[r] = "acquiring") => Cardinality(others) = N
              /\ (pc[r] = "init" /\ pc'[r] = "retrieve") => Cardinality(others) < N
              /\ (pc[r] = "acquiring" /\ pc'[r] = "terminal") =>
                    /\ Cardinality(others) = N
                    /\ events'[r] = <<Event("error", "CHAT_REPO_CONCURRENCY_LIMIT")>>
              /\ (pc[r] = "acquiring" /\ pc'[r] = "retrieve") =>
                    /\ Cardinality(others) < N
                    /\ acquired'[r]
                    /\ events'[r] = <<>>
      ]_vars

\* A request waited behind the N holders, acquired the permit one of them
\* released and ended with done: N+1 concurrent requests and none rejected.
C5_Witness ==
    \E r \in Reqs :
        /\ waited[r] /\ acquired[r]
        /\ pc[r] = "closed"
        /\ Has(r, "done")
        /\ \A q \in Reqs : ~Rejected(q)

\* C6: in every stream, at every moment, the sources event is the first event
\* of the pipeline and occurs at most once, at most one meta event follows it
\* directly, content events come after them, a done or error event is the
\* last event, done only after sources, and every error event carries one of
\* the codes; a stream that ended without a client cancellation has its
\* terminal event.
C6_EventOrder ==
    \A r \in Reqs :
        LET ev == events[r]
            n == Len(ev)
        IN  /\ \A i \in 1..n :
                  /\ ev[i].type \in {"sources", "meta", "content", "done", "error"}
                  /\ ev[i].type = "sources" => i = 1
                  /\ ev[i].type = "meta" => i = 2 /\ ev[1].type = "sources"
                  /\ ev[i].type = "content" =>
                        /\ ev[1].type = "sources"
                        /\ \A j \in 2..(i - 1) : ev[j].type \in {"meta", "content"}
                  /\ ev[i].type = "done" => ev[1].type = "sources"
                  /\ ev[i].type \in {"done", "error"} => i = n
                  /\ ev[i].type = "error" => ev[i].code \in ErrorCodes
            /\ (pc[r] \in {"terminal", "closed"} /\ ~cancelled[r]) =>
                  /\ n >= 1
                  /\ ev[n].type \in {"done", "error"}

\* A stream sources, meta, content, done has ended.
C6_Witness ==
    \E r \in Reqs :
        /\ pc[r] = "closed"
        /\ Types(r) = <<"sources", "meta", "content", "done">>

\* C7 as stated: when the model stream failed (the last piece is the inline
\* error fragment), the text of the pieces is not stored as the answer of the
\* request's key.
C7_NoPartialAnswerCached ==
    \A r \in Reqs :
        (pieces[r] # <<>> /\ pieces[r][Len(pieces[r])] = ErrorFragment) =>
            LET e == local["answer"][AnswerDigest(r)]
            IN  ~(e.present /\ e.value = Join(pieces[r]))

\* C8 as stated: when the consumer closes the stream right after the last
\* fragment of a model stream that delivered all its fragments, the answer is
\* in the answer cache.
C8_CachedDespiteCancel ==
    [][\A r \in Reqs :
          ( /\ pc[r] = "generating" /\ gen_pc[r] = "llm"
            /\ llm_plan[r] > 0 /\ llm_sent[r] = llm_plan[r]
            /\ ~cancelled[r] /\ cancelled'[r] )
          => /\ local'["answer"][AnswerDigest(r)].present
             /\ local'["answer"][AnswerDigest(r)].value = Join(pieces[r])
      ]_vars

(***************************************************************************)
(* RAGPipeline: intent classification, query normalisation and expansion.  *)
(* A query is a sequence of words; a phrase of the code's tables is a      *)
(* sequence of words and matches where it occurs in the query.             *)
(***************************************************************************)
\* ChatIntent, in the order of the enum
IntentOrder == <<"overview", "implementation", "tech_stack", "location", "troubleshooting">>
Intents == Range(IntentOrder)

\* str.lower() on the words of the model
Lower(w) ==
    CASE w = "Overview" -> "overview"
      [] w = "What" -> "what"
      [] w = "README" -> "readme"
      [] w = "README.md" -> "readme.md"
      [] w = "def login(): raise AuthError" -> "def login(): raise autherror"
      [] w = "Documenso aims to be the world's most trusted document-signing tool."
           -> "documenso aims to be the world's most trusted document-signing tool."
      [] OTHER -> w
LowerQuery(q) == [i \in 1..Len(q) |-> Lower(q[i])]

\* pattern in query_lower
IsInfix(p, q) ==
    \E i \in 1..(Len(q) - Len(p) + 1) : SubSeq(q, i, i + Len(p) - 1) = p

\* _score_intents: the pattern lists
IntentPatterns(i) ==
    CASE i = "overview" ->
            {<<"main", "features">>, <<"what", "does", "this", "application">>,
             <<"what", "is", "this", "application">>, <<"overview">>, <<"about">>,
             <<"purpose">>, <<"capabilities">>}
      [] i = "implementation" ->
            {<<"how", "does">>, <<"how", "is">>, <<"implementation">>, <<"flow">>,
             <<"code", "path">>, <<"internals">>}
      [] i = "tech_stack" ->
            {<<"tech", "stack">>, <<"technologies">>, <<"libraries">>, <<"dependencies">>,
             <<"frameworks">>, <<"stack">>}
      [] i = "location" ->
            {<<"where", "is">>, <<"which", "file">>, <<"location">>, <<"defined">>,
             <<"find">>, <<"located">>}
      [] i = "troubleshooting" ->
            {<<"error">>, <<"bug">>, <<"failing">>, <<"not", "working">>, <<"exception">>,
             <<"fix">>, <<"issue">>}

\* _score_intents: add_score(patterns, intent, 3)
PatternPoints == 3

\* _score_intents: the re.search bonuses
WordBonus(i, ql) ==
    CASE i = "overview" ->
            IF \E k \in 1..Len(ql) : ql[k] \in {"feature", "overview", "purpose"}
            THEN 2 ELSE 0
      [] i = "implementation" ->
            IF \E k \in 1..Len(ql) :
                  ql[k] \in {"api", "handler", "service", "class", "function", "method"}
            THEN 1 ELSE 0
      [] i = "tech_stack" ->
            IF \E k \in 1..Len(ql) :
                  ql[k] \in {"config", "package.json", "pyproject", "requirements"}
            THEN 1 ELSE 0
      [] OTHER -> 0

IntentScore(i, ql) ==
    PatternPoints * Cardinality({p \in IntentPatterns(i) : IsInfix(p, ql)}) + WordBonus(i, ql)

\* sorted(items, key=score, reverse=True): stable, so equal scores keep their
\* order.  The items are records with a field score.
RECURSIVE InsertByScore(_, _)
InsertByScore(x, sorted) ==
    IF sorted = <<>> THEN <<x>>
    ELSE IF Head(sorted).score >= x.score
         THEN <<Head(sorted)>> \o InsertByScore(x, Tail(sorted))
         ELSE <<x>> \o sorted

RECURSIVE SortByScore(_)
SortByScore(items) ==
    IF items = <<>> THEN <<>>
    ELSE InsertByScore(items[Len(items)], SortByScore(SubSeq(items, 1, Len(items) - 1)))

\* _score_intents
ScoreIntents(query) ==
    LET ql == LowerQuery(query)
    IN  SortByScore([k \in 1..Len(IntentOrder) |->
                        [intent |-> IntentOrder[k], score |-> IntentScore(IntentOrder[k], ql)]])

\* classify_intent / classify_intent_async: the mode overrides the rules
ModeOverrides(mode) == mode # "" /\ mode # "auto" /\ mode \in Intents

\* classify_intent
ClassifyIntent(query, mode) ==
    LET ordered == ScoreIntents(query)
    IN  IF ModeOverrides(mode) THEN mode
        ELSE IF ordered[1].score = 0 THEN "implementation"
        ELSE ordered[1].intent

\* classify_intent_async: candidates of the tie-break
\* Variant of TiebreakCandidates: the first three intents, tied or not.
TiebreakCandidatesMutantTopThree(query) == SubSeq(ScoreIntents(query), 1, 3)

TiebreakCandidates(query) ==
    LET ordered == ScoreIntents(query)
    IN  SelectSeq(SubSeq(ordered, 1, 3), LAMBDA item : item.score = ordered[1].score)

\* classify_intent_async: the tie-break collaborator is called
TiebreakCalled(query, mode) ==
    LET ordered == ScoreIntents(query)
    IN  /\ ~ModeOverrides(mode)
        /\ ordered[1].score # 0
        /\ settings.chat_intent_llm_tiebreak_enabled
        /\ Len(ordered) > 1
        /\ ordered[2].score = ordered[1].score

\* _llm_intent_tiebreak.  response: the call failed, or the intent literals the
\* lowered response contains.
LlmIntentTiebreak(candidates, response) ==
    IF candidates = <<>> \/ response.failed THEN None
    ELSE LET found == SelectSeq(candidates, LAMBDA c : c.intent \in response.mentions)
         IN  IF found = <<>> THEN None ELSE Some(found[1].intent)

\* classify_intent_async
ClassifyIntentAsync(query, mode, response) ==
    IF TiebreakCalled(query, mode)
    THEN LET guessed == LlmIntentTiebreak(TiebreakCandidates(query), response)
         IN  IF guessed.some THEN guessed.value ELSE ClassifyIntent(query, mode)
    ELSE ClassifyIntent(query, mode)

\* _intent_profile
IntentProfile(i) ==
    CASE i = "overview" ->
            IF settings.chat_docs_first_overview_enabled THEN "docs_first" ELSE "code_first"
      [] i = "tech_stack" -> "stack"
      [] i = "location" -> "location"
      [] i = "troubleshooting" -> "error_focus"
      [] OTHER -> "code_first"

\* _normalize_query: lower case; the characters outside a-z0-9_-./ and space
\* become spaces, runs of spaces collapse: a punctuation word disappears.
PunctuationWords == {"?"}
NormalizeQuery(query) ==
    SelectSeq(LowerQuery(query), LAMBDA w : w \notin PunctuationWords)

\* QUERY_EXPANSIONS, in the order of the dict
QueryExpansions ==
    << [keyword |-> <<"how", "does">>, expansions |-> <<"implementation", "flow", "logic", "function">>],
       [keyword |-> <<"where", "is">>, expansions |-> <<"file", "path", "location", "defined">>],
       [keyword |-> <<"error">>, expansions |-> <<"exception", "traceback", "retry", "fallback">>],
       [keyword |-> <<"auth">>, expansions |-> <<"authentication", "authorization", "login", "session", "token">>],
       [keyword |-> <<"database">>, expansions |-> <<"schema", "model", "query", "migration">>],
       [keyword |-> <<"feature">>, expansions |-> <<"overview", "purpose", "capabilities", "use case">>],
       [keyword |-> <<"stack">>, expansions |-> <<"framework", "library", "dependency", "architecture">>] >>

\* _expand_query: expansions[:2]
ExpansionsPerKeyword == 2
\* _expand_query: deduped[:6]
MaxExpandedQueries == 6

\* if x not in xs: xs.append(x)
AppendNew(xs, x) == IF x \in Range(xs) THEN xs ELSE Append(xs, x)

RECURSIVE AppendAllNew(_, _)
AppendAllNew(xs, ys) ==
    IF ys = <<>> THEN xs ELSE AppendAllNew(AppendNew(xs, Head(ys)), Tail(ys))

\* _is_explicit_entrypoint_question
IsExplicitEntrypointQuestion(ql) ==
    \E p \in {<<"entry", "point">>, <<"startup">>, <<"bootstrap">>, <<"main", "file">>,
              <<"main", "entry">>} : IsInfix(p, ql)

\* _expand_query: the loop over QUERY_EXPANSIONS, from table row k on
RECURSIVE KeywordExpanded(_, _, _)
KeywordExpanded(query, queries, k) ==
    IF k > Len(QueryExpansions) THEN queries
    ELSE LET row == QueryExpansions[k]
             added == [j \in 1..ExpansionsPerKeyword |-> query \o <<row.expansions[j]>>]
         IN  KeywordExpanded(query,
                             IF IsInfix(row.keyword, LowerQuery(query))
                             THEN AppendAllNew(queries, added)
                             ELSE queries,
                             k + 1)

\* Variant of ExpandQuery: the keyword expansions alone, without the cap.
ExpandQueryMutantNoCap(query, i) == KeywordExpanded(query, <<query>>, 1)

\* _expand_query
ExpandQuery(query, i) ==
    LET keyworded == KeywordExpanded(query, <<query>>, 1)
        extended ==
            IF i = "overview"
            THEN keyworded \o <<query \o <<"README", "overview">>, query \o <<"docs">>>>
            ELSE IF i = "tech_stack"
            THEN keyworded \o <<query \o <<"package.json", "dependencies">>,
                               query \o <<"requirements", "pyproject">>>>
            ELSE IF IsExplicitEntrypointQuestion(LowerQuery(query))
            THEN keyworded \o << <<"index.ts", "OR", "index.js", "OR", "main.py", "OR",
                                   "app.tsx", "OR", "server.ts">>,
                                 <<"package.json", "main">> >>
            ELSE keyworded
        deduped == AppendAllNew(<<>>, extended)
    IN  SubSeq(deduped, 1, IF Len(deduped) < MaxExpandedQueries
                           THEN Len(deduped) ELSE MaxExpandedQueries)

(***************************************************************************)
(* RAGPipeline._rerank_chunks.                                             *)
(***************************************************************************)
\* A retrieved chunk: its id, its score and the path of its file.
Chunk(id, score, file_path) == [id |-> id, score |-> score, file_path |-> file_path]

\* The response of the collaborator to the rerank prompt.  form: the text is a
\* JSON object ("object"), a JSON object in a code fence ("fenced"), a text
\* with a JSON object inside ("embedded"), JSON that is no object and holds
\* none ("array"), or a text without JSON ("prose").  ranked: the value of
\* "ranked_ids" in the object, a list (ranked_kind "list") or something else.
\* extra: the id-shaped tokens of the text outside ranked_ids, in order.
NonStringItem == "#7"
RerankResponse(form, ranked_kind, ranked, extra) ==
    [failed |-> FALSE, form |-> form, ranked_kind |-> ranked_kind, ranked |-> ranked,
     extra |-> extra]

\* self._llm.generate raises
RerankCallError ==
    [failed |-> TRUE, form |-> "prose", ranked_kind |-> "list", ranked |-> <<>>, extra |-> <<>>]

\* _extract_json: the payload, if the text is or holds a JSON object
ExtractJson(response) ==
    IF response.form \in {"object", "fenced", "embedded"}
    THEN Some([ranked_kind |-> response.ranked_kind, ranked_ids |-> response.ranked])
    ELSE None

\* re.findall(r"[0-9a-fA-F-]{32,36}", response): the id-shaped tokens of the
\* whole text, those of the ranked_ids list first
IdTokens(response) ==
    (IF response.ranked_kind = "list"
     THEN SelectSeq(response.ranked, LAMBDA item : item # NonStringItem)
     ELSE <<>>) \o response.extra

\* for item in items: if isinstance(item, str) and item in valid_ids and
\* item not in ranked_ids: ranked_ids.append(item)
RECURSIVE KeepValidIds(_, _, _)
KeepValidIds(items, valid_ids, ranked_ids) ==
    IF items = <<>> THEN ranked_ids
    ELSE KeepValidIds(Tail(items), valid_ids,
                      IF /\ Head(items) # NonStringItem
                         /\ Head(items) \in valid_ids
                         /\ Head(items) \notin Range(ranked_ids)
                      THEN Append(ranked_ids, Head(items))
                      ELSE ranked_ids)

\* chunk_map[chunk_id]: the last chunk of the list with that id
ChunkById(cs, id) ==
    LET k == CHOOSE k \in 1..Len(cs) :
                /\ cs[k].id = id
                /\ \A j \in (k + 1)..Len(cs) : cs[j].id # id
    IN  cs[k]

\* _rerank_chunks: the ids ranked by the response
RankedIdsMutantNoFallback(cs, response) ==
    LET valid_ids == {cs[k].id : k \in 1..Len(cs)}
        payload == ExtractJson(response)
        raw_ids == IF payload.some /\ payload.value.ranked_kind = "list"
                   THEN payload.value.ranked_ids
                   ELSE <<>>
    IN  KeepValidIds(raw_ids, valid_ids, <<>>)

RankedIds(cs, response) ==
    LET valid_ids == {cs[k].id : k \in 1..Len(cs)}
        payload == ExtractJson(response)
        raw_ids == IF payload.some /\ payload.value.ranked_kind = "list"
                   THEN payload.value.ranked_ids
                   ELSE <<>>
        from_json == KeepValidIds(raw_ids, valid_ids, <<>>)
    IN  IF from_json # <<>> THEN from_json
        ELSE KeepValidIds(IdTokens(response), valid_ids, <<>>)

\* _rerank_chunks
RerankChunksMutantDropUnranked(cs, response) ==
    IF response.failed THEN cs
    ELSE LET ranked_ids == RankedIds(cs, response)
         IN  IF ranked_ids = <<>> THEN cs
             ELSE [k \in 1..Len(ranked_ids) |-> ChunkById(cs, ranked_ids[k])]

RerankChunksMutantEmptyOnFailure(cs, response) ==
    IF response.failed THEN <<>>
    ELSE LET ranked_ids == RankedIds(cs, response)
             reordered == [k \in 1..Len(ranked_ids) |-> ChunkById(cs, ranked_ids[k])]
             seen == {reordered[k].id : k \in 1..Len(reordered)}
         IN  IF ranked_ids = <<>> THEN <<>>
             ELSE reordered \o SelectSeq(cs, LAMBDA c : c.id \notin seen)

RerankChunks(cs, response) ==
    IF response.failed THEN cs
    ELSE LET ranked_ids == RankedIds(cs, response)
             reordered == [k \in 1..Len(ranked_ids) |-> ChunkById(cs, ranked_ids[k])]
             seen == {reordered[k].id : k \in 1..Len(reordered)}
         IN  IF ranked_ids = <<>> THEN cs
             ELSE reordered \o SelectSeq(cs, LAMBDA c : c.id \notin seen)

(***************************************************************************)
(* _rerank_chunks called on its own, for every list of distinct chunks of  *)
(* a pool and every response of a bounded shape.                           *)
(***************************************************************************)
MaxRankedIds == 2      \* longest ranked_ids list of a response
MaxExtraTokens == 1    \* most id-shaped tokens outside ranked_ids

RerankPool == {Chunk("c1", 9, "README.md"), Chunk("c2", 8, "src/app.py"),
               Chunk("c3", 8, "src/db.py")}

\* An id no chunk of the pool has.
UnknownId == "zz"

SeqsUpTo(S, n) == UNION {[1..k -> S] : k \in 0..n}

\* The responses: the items of ranked_ids are ids of the pool, an unknown id
\* or no string; the other tokens are ids of the pool or an unknown id.
RerankResponses ==
    LET tokens == {c.id : c \in RerankPool} \cup {UnknownId}
        items == tokens \cup {NonStringItem}
    IN  {RerankCallError}
        \cup {RerankResponse(form, "list", ranked, extra) :
                form \in {"object", "fenced", "embedded"},
                ranked \in SeqsUpTo(items, MaxRankedIds),
                extra \in SeqsUpTo(tokens, MaxExtraTokens)}
        \cup {RerankResponse(form, "other", <<>>, extra) :
                form \in {"object", "fenced", "embedded"},
                extra \in SeqsUpTo(tokens, MaxExtraTokens)}
        \cup {RerankResponse(form, "list", <<>>, extra) :
                form \in {"array", "prose"},
                extra \in SeqsUpTo(tokens, MaxExtraTokens)}

RerankInit ==
    /\ redis_enabled = FALSE
    /\ CacheInit
    /\ ChatInit
    /\ GenerateIdle
    /\ RetrieveIdle
    /\ settings = [chat_max_concurrent_per_repo |-> 0, chat_emit_meta_event |-> FALSE]
    /\ rerank_input \in {cs \in SeqsUpTo(RerankPool, Cardinality(RerankPool)) :
                            \A i, j \in 1..Len(cs) : i # j => cs[i].id # cs[j].id}
    /\ rerank_response \in RerankResponses
    /\ rerank_output = None
    /\ StagesIdle

\* reordered = await self._rerank_chunks(query, intent, chunks)
RerankCall ==
    /\ ~rerank_output.some
    /\ rerank_output' = Some(RerankChunks(rerank_input, rerank_response))
    /\ UNCHANGED <<rerank_input, rerank_response, retrVars, cacheVars, chatVars, answerVars,
                   assembleVars, scoreVars>>

RerankSpec == RerankInit /\ [][RerankCall]_vars

(***************************************************************************)
(* RAGPipeline.retrieve: one call, step by step, on a cache that is empty  *)
(* or already holds entries of earlier requests.                           *)
(***************************************************************************)
RetrievalCandidateLimit == 4   \* settings.chat_retrieval_candidate_limit
RerankCandidateLimit == 6      \* settings.chat_rerank_candidate_limit

\* The questions of the calls.
RetrieveQueries == {<<"login", "handler">>, <<"Overview", "?">>, <<"stack", "error">>}

\* The chunks of the repository's collection and the result lists of
\* hybrid_search: every chunk, two chunks with other scores, or nothing.
StoreChunks ==
    << Chunk("c1", 9, "README.md"), Chunk("c2", 8, "src/app.py"), Chunk("c3", 8, "src/db.py"),
       Chunk("c4", 7, "docs/guide.md"), Chunk("c5", 6, "src/auth.py"),
       Chunk("c6", 5, "src/api.py"), Chunk("c7", 4, "src/util.py") >>
SearchResults ==
    {StoreChunks, <<Chunk("c7", 10, "src/util.py"), Chunk("c2", 3, "src/app.py")>>, <<>>}

\* The responses of the collaborator to the rerank prompt of retrieve.
RetrieveRerankResponses ==
    {RerankCallError,
     RerankResponse("prose", "list", <<>>, <<>>),
     RerankResponse("prose", "list", <<>>, <<"c3">>),
     RerankResponse("object", "list", <<>>, <<>>),
     RerankResponse("object", "list", <<"c6", "c2">>, <<>>)}

\* _key_retrieval, for the pipeline's repository and no context files: the
\* digest (_hash_payload) of the payload's canonical text
RetrievalDigest(normalized_query, i, p) ==
    ToString(<<"repo-1", normalized_query, i, p>>)

\* _key_embedding, for the embedding service's model
EmbeddingDigest(query) == ToString(<<query, "model">>)

\* The digests of the keys a call of retrieve can use.
RetrieveDigests ==
    Repos
    \cup {RetrievalDigest(NormalizeQuery(q), i, p) :
            q \in RetrieveQueries, i \in Intents,
            p \in {"code_first", "docs_first", "stack", "location", "error_focus"}}
    \cup UNION {{EmbeddingDigest(e) : e \in Range(ExpandQuery(q, i))} :
                  q \in RetrieveQueries, i \in Intents}

\* _serialize_chunk: the dict of the chunk's fields
SerializeChunk(c) == [dict |-> TRUE, id |-> c.id, score |-> c.score, file_path |-> c.file_path]

\* _deserialize_chunk
DeserializeChunk(item) == Chunk(item.id, item.score, item.file_path)

\* Variant of IsDocsPath: the paths under docs/ only.
IsDocsPathMutantDocsDirOnly(file_path) == file_path = "docs/guide.md"

\* _is_docs_path, on the paths of the model
IsDocsPath(file_path) == file_path \in {"README.md", "docs/guide.md"}

\* retrieve: the loop over the results of one search.  all is the dict
\* all_chunks as the list of its values in insertion order; a replaced value
\* keeps its place.
MergeResultsMutantKeepFirst(all, results) ==
    all \o SelectSeq(results, LAMBDA c : \A k \in 1..Len(all) : all[k].id # c.id)

RECURSIVE MergeResults(_, _)
MergeResults(all, results) ==
    IF results = <<>> THEN all
    ELSE LET chunk == Head(results)
             at == {k \in 1..Len(all) : all[k].id = chunk.id}
             merged ==
                IF at = {} THEN Append(all, chunk)
                ELSE [k \in 1..Len(all) |->
                        IF k \in at /\ chunk.score > all[k].score THEN chunk ELSE all[k]]
         IN  MergeResults(merged, Tail(results))

\* retrieve: retrieval_limit
RetrievalLimit == Max(ret_args.limit * 3, settings.chat_retrieval_candidate_limit)

\* retrieve: sorted(all_chunks.values(), key=score, reverse=True)[:retrieval_limit]
SortedCandidatesMutantInsertionOrder == TakeChars(all_chunks, RetrievalLimit)

SortedCandidates == TakeChars(SortByScore(all_chunks), RetrievalLimit)

\* retrieve, up to the retrieval cache lookup: intent, profile and expansion.
\* response: what the tie-break collaborator answers if it is asked.
RetrieveCall(query, mode, limit, response) ==
    /\ ret_pc = "idle"
    /\ ret_args' = [query |-> query, mode |-> mode, limit |-> limit]
    /\ LET i == IF settings.chat_intent_routing_enabled
                THEN ClassifyIntentAsync(query, mode, response)
                ELSE "implementation"
       IN  /\ intent' = i
           /\ profile' = IntentProfile(i)
           /\ expanded_queries' = ExpandQuery(query, i)
    /\ calls' = IF settings.chat_intent_routing_enabled /\ TiebreakCalled(query, mode)
                THEN <<"tiebreak">> ELSE <<>>
    /\ cache_hit' = FALSE
    /\ all_chunks' = <<>>
    /\ ret_pc' = "lookup"
    /\ UNCHANGED <<ret_next, chunks, reranked, ret_result, settings>>
    /\ UNCHANGED <<redis_enabled, redis, local, hits, misses, redis_errors, now>>
    /\ UNCHANGED <<lastOp, opCount, chatVars, answerVars, rerankVars, assembleVars, scoreVars>>

\* retrieve: get_retrieval and, on a hit, the candidates of the entry
RetrievalLookupMutantSearchOnHit ==
    /\ ret_pc = "lookup"
    /\ LET d == RetrievalDigest(NormalizeQuery(ret_args.query), intent, profile)
           cached_candidates == CacheLookup("retrieval", d, FALSE)
           hit == cached_candidates.some /\ cached_candidates.value # <<>>
       IN  /\ CacheGet("retrieval", d, FALSE)
           /\ cache_hit' = hit
           /\ all_chunks' = <<>>
           /\ ret_pc' = "embed"
    /\ ret_next' = 1
    /\ calls' = Append(calls, "get_retrieval")
    /\ UNCHANGED <<ret_args, intent, profile, expanded_queries, chunks, reranked,
                   ret_result, settings>>
    /\ UNCHANGED <<lastOp, opCount, chatVars, answerVars, rerankVars, assembleVars, scoreVars>>

RetrievalLookup ==
    /\ ret_pc = "lookup"
    /\ LET d == RetrievalDigest(NormalizeQuery(ret_args.query), intent, profile)
           cached_candidates == CacheLookup("retrieval", d, FALSE)
           hit == cached_candidates.some /\ cached_candidates.value # <<>>
       IN  /\ CacheGet("retrieval", d, FALSE)
           /\ cache_hit' = hit
           /\ all_chunks' =
                IF hit
                THEN MergeResults(<<>>, [k \in 1..Len(cached_candidates.value) |->
                                            DeserializeChunk(cached_candidates.value[k])])
                ELSE <<>>
           /\ ret_pc' = IF hit THEN "rerank" ELSE "embed"
    /\ ret_next' = 1
    /\ calls' = Append(calls, "get_retrieval")
    /\ UNCHANGED <<ret_args, intent, profile, expanded_queries, chunks, reranked,
                   ret_result, settings>>
    /\ UNCHANGED <<lastOp, opCount, chatVars, answerVars, rerankVars, assembleVars, scoreVars>>

\* _embed_query_cached: get_embedding
EmbedLookup ==
    /\ ret_pc = "embed"
    /\ LET d == EmbeddingDigest(expanded_queries[ret_next])
       IN  /\ CacheGet("embedding", d, FALSE)
           /\ ret_pc' = IF CacheLookup("embedding", d, FALSE).some THEN "search" ELSE "embed_query"
    /\ calls' = Append(calls, "get_embedding")
    /\ UNCHANGED <<ret_args, intent, profile, expanded_queries, ret_next, all_chunks,
                   chunks, cache_hit, reranked, ret_result, settings>>
    /\ UNCHANGED <<lastOp, opCount, chatVars, answerVars, rerankVars, assembleVars, scoreVars>>

\* _embed_query_cached: embed_query and set_embedding.  ok: the embedding
\* service answers with the vector of the query; otherwise its error leaves
\* retrieve.
EmbedCall(ok) ==
    /\ ret_pc = "embed_query"
    /\ IF ok
       THEN /\ CacheSet("embedding", EmbeddingDigest(expanded_queries[ret_next]),
                        <<"vector", expanded_queries[ret_next]>>, FALSE)
            /\ calls' = calls \o <<"embed_query", "set_embedding">>
            /\ ret_pc' = "search"
       ELSE /\ calls' = Append(calls, "embed_query")
            /\ ret_pc' = "raised"
            /\ UNCHANGED <<redis_enabled, redis, local, hits, misses, redis_errors, now>>
    /\ UNCHANGED <<ret_args, intent, profile, expanded_queries, ret_next, all_chunks,
                   chunks, cache_hit, reranked, ret_result, settings>>
    /\ UNCHANGED <<lastOp, opCount, chatVars, answerVars, rerankVars, assembleVars, scoreVars>>

\* retrieve: hybrid_search for the expanded query and the merge of its
\* results.  ok: the search answers; otherwise its error leaves retrieve.
SearchMutantSkipFailure(ok, results) ==
    /\ ret_pc = "search"
    /\ calls' = Append(calls, "hybrid_search")
    /\ all_chunks' = IF ok THEN MergeResults(all_chunks, TakeChars(results, RetrievalLimit))
                     ELSE all_chunks
    /\ ret_next' = ret_next + 1
    /\ ret_pc' = IF ret_next < Len(expanded_queries) THEN "embed" ELSE "write"
    /\ UNCHANGED <<ret_args, intent, profile, expanded_queries, chunks, cache_hit,
                   reranked, ret_result, settings>>
    /\ UNCHANGED <<redis_enabled, redis, local, hits, misses, redis_errors, now>>
    /\ UNCHANGED <<lastOp, opCount, chatVars, answerVars, rerankVars, assembleVars, scoreVars>>

Search(ok, results) ==
    /\ ret_pc = "search"
    /\ calls' = Append(calls, "hybrid_search")
    /\ IF ok
       THEN /\ all_chunks' = MergeResults(all_chunks, TakeChars(results, RetrievalLimit))
            /\ ret_next' = ret_next + 1
            /\ ret_pc' = IF ret_next < Len(expanded_queries) THEN "embed" ELSE "write"
       ELSE /\ ret_pc' = "raised"
            /\ UNCHANGED <<all_chunks, ret_next>>
    /\ UNCHANGED <<ret_args, intent, profile, expanded_queries, chunks, cache_hit,
                   reranked, ret_result, settings>>
    /\ UNCHANGED <<redis_enabled, redis, local, hits, misses, redis_errors, now>>
    /\ UNCHANGED <<lastOp, opCount, chatVars, answerVars, rerankVars, assembleVars, scoreVars>>

\* retrieve: set_retrieval after the loop, if anything was found
RetrievalWrite ==
    /\ ret_pc = "write"
    /\ IF all_chunks # <<>>
       THEN /\ CacheSet("retrieval",
                        RetrievalDigest(NormalizeQuery(ret_args.query), intent, profile),
                        [k \in 1..Len(SortedCandidates) |-> SerializeChunk(SortedCandidates[k])],
                        FALSE)
            /\ calls' = Append(calls, "set_retrieval")
       ELSE UNCHANGED <<redis_enabled, redis, local, hits, misses, redis_errors, now, calls>>
    /\ ret_pc' = "rerank"
    /\ UNCHANGED <<ret_args, intent, profile, expanded_queries, ret_next, all_chunks,
                   chunks, cache_hit, reranked, ret_result, settings>>
    /\ UNCHANGED <<lastOp, opCount, chatVars, answerVars, rerankVars, assembleVars, scoreVars>>

\* retrieve: the candidates in score order and the content rerank of the
\* first of them.  response: what the collaborator answers if it is asked.
Rerank(response) ==
    /\ ret_pc = "rerank"
    /\ IF settings.chat_content_rerank_enabled /\ Len(SortedCandidates) > 5
       THEN LET candidate_limit == Max(6, settings.chat_rerank_candidate_limit)
                primary == TakeChars(SortedCandidates, candidate_limit)
                secondary == DropChars(SortedCandidates, candidate_limit)
            IN  /\ rerank_input' = primary
                /\ rerank_response' = response
                /\ rerank_output' = Some(RerankChunks(primary, response))
                /\ chunks' = RerankChunks(primary, response) \o secondary
                /\ reranked' = TRUE
                /\ calls' = Append(calls, "rerank")
       ELSE /\ chunks' = SortedCandidates
            /\ reranked' = FALSE
            /\ UNCHANGED <<calls, rerankVars>>
    /\ ret_pc' = "select"
    /\ UNCHANGED <<ret_args, intent, profile, expanded_queries, ret_next, all_chunks,
                   cache_hit, ret_result, settings>>
    /\ UNCHANGED <<redis_enabled, redis, local, hits, misses, redis_errors, now>>
    /\ UNCHANGED <<lastOp, opCount, chatVars, answerVars, assembleVars, scoreVars>>

\* retrieve: the selection, the grounding label and the result
RetrieveReturn ==
    /\ ret_pc = "select"
    /\ LET selected == TakeChars(chunks, ret_args.limit)
           docs_hits == Cardinality({k \in 1..Len(selected) : IsDocsPath(selected[k].file_path)})
           grounding ==
                IF intent = "overview"
                THEN IF docs_hits >= 1 THEN "high"
                     ELSE IF selected # <<>> THEN "medium" ELSE "low"
                ELSE IF selected # <<>> THEN "high" ELSE "low"
       IN  ret_result' = Some([chunks |-> selected, query |-> ret_args.query,
                               intent |-> intent, profile |-> profile,
                               diagnostics |->
                                  [intent |-> intent, profile |-> profile,
                                   expanded_queries |-> expanded_queries,
                                   candidate_count |-> Len(chunks),
                                   reranked |-> reranked, cache_hit |-> cache_hit,
                                   grounding |-> grounding]])
    /\ ret_pc' = "returned"
    /\ calls' = Append(calls, "return")
    /\ UNCHANGED <<ret_args, intent, profile, expanded_queries, ret_next, all_chunks,
                   chunks, cache_hit, reranked, settings>>
    /\ UNCHANGED <<redis_enabled, redis, local, hits, misses, redis_errors, now>>
    /\ UNCHANGED <<lastOp, opCount, chatVars, answerVars, rerankVars, assembleVars, scoreVars>>

\* The pipeline's cache before the call: the retrieval entries hold the list
\* cached (none if it is empty), the embedding entries are there if warm.
RetrieveInit ==
    /\ redis_enabled = FALSE
    /\ redis = [k \in CacheKeys |-> NoEntry]
    /\ \E cached \in SearchResults, warm \in BOOLEAN :
          local = [ns \in Namespaces |-> [d \in RetrieveDigests |->
                     IF ns = "retrieval" /\ d \notin Repos /\ cached # <<>>
                     THEN [present |-> TRUE,
                           value |-> [k \in 1..Len(SortByScore(cached)) |->
                                         SerializeChunk(SortByScore(cached)[k])],
                           expires |-> Max(1, TtlSetting(ns))]
                     ELSE IF ns = "embedding" /\ d \notin Repos /\ warm
                     THEN [present |-> TRUE, value |-> <<"vector", d>>,
                           expires |-> Max(1, TtlSetting(ns))]
                     ELSE NoEntry]]
    /\ hits = 0
    /\ misses = 0
    /\ redis_errors = 0
    /\ now = 0
    /\ lastOp = NoOp
    /\ opCount = 0
    /\ ChatInit
    /\ GenerateIdle
    /\ RetrieveIdle
    /\ RerankIdle
    /\ StagesIdle
    /\ settings \in [chat_max_concurrent_per_repo : {0},
                     chat_emit_meta_event : {FALSE},
                     chat_intent_routing_enabled : BOOLEAN,
                     chat_intent_llm_tiebreak_enabled : BOOLEAN,
                     chat_content_rerank_enabled : BOOLEAN,
                     chat_docs_first_overview_enabled : BOOLEAN,
                     chat_retrieval_candidate_limit : {RetrievalCandidateLimit},
                     chat_rerank_candidate_limit : {RerankCandidateLimit}]

RetrieveNext ==
    \/ \E query \in RetrieveQueries,
          mode \in {"auto", "overview", "location", "bogus"},
          limit \in {1, 3},
          response \in {[failed |-> TRUE, mentions |-> {}],
                        [failed |-> FALSE, mentions |-> {}],
                        [failed |-> FALSE, mentions |-> {"troubleshooting"}]} :
          RetrieveCall(query, mode, limit, response)
    \/ RetrievalLookup
    \/ EmbedLookup
    \/ \E ok \in BOOLEAN : EmbedCall(ok)
    \/ \E ok \in BOOLEAN, results \in SearchResults : Search(ok, results)
    \/ RetrievalWrite
    \/ \E response \in RetrieveRerankResponses : Rerank(response)
    \/ RetrieveReturn

RetrieveSpec == RetrieveInit /\ [][RetrieveNext]_vars

(***************************************************************************)
(* Two calls of retrieve in a row, on a cache that starts without          *)
(* retrieval entries, with collaborators that answer the same question the *)
(* same way: every search returns the first chunks of StoreChunks, the     *)
(* reranker always ranks c6 and c2 first.                                  *)
(***************************************************************************)

\* The next call of retrieve, for the same query and mode (so the same
\* intent, profile and expansion) and the limit given.
RetrieveAgain(limit) ==
    /\ ret_pc = "returned"
    /\ ~cache_hit
    /\ ret_args' = [ret_args EXCEPT !.limit = limit]
    /\ calls' = SelectSeq(calls, LAMBDA c : c = "tiebreak")
    /\ cache_hit' = FALSE
    /\ all_chunks' = <<>>
    /\ ret_pc' = "lookup"
    /\ UNCHANGED <<intent, profile, expanded_queries, ret_next, chunks, reranked,
                   ret_result, settings>>
    /\ UNCHANGED <<redis_enabled, redis, local, hits, misses, redis_errors, now>>
    /\ UNCHANGED <<lastOp, opCount, chatVars, answerVars, rerankVars, assembleVars, scoreVars>>

\* The pipeline's cache holds no retrieval entry.
TransparencyInit ==
    /\ RetrieveInit
    /\ \A d \in RetrieveDigests : ~local["retrieval"][d].present

TransparencySpec ==
    /\ TransparencyInit
    /\ [][ \/ \E query \in RetrieveQueries, mode \in {"auto", "overview"}, limit \in {1, 3} :
                 RetrieveCall(query, mode, limit, [failed |-> TRUE, mentions |-> {}])
           \/ RetrievalLookup
           \/ EmbedLookup
           \/ EmbedCall(TRUE)
           \/ Search(TRUE, StoreChunks)
           \/ RetrievalWrite
           \/ Rerank(RerankResponse("object", "list", <<"c6", "c2">>, <<>>))
           \/ RetrieveReturn
           \/ \E limit \in {1, 3} : RetrieveAgain(limit) ]_vars

(***************************************************************************)
(* One chat request and one call of RAGPipeline.generate on an answer      *)
(* cache that holds the answer of an earlier request for repo-1.           *)
(***************************************************************************)
MaxReplayChars == 700    \* length of the longest cached answer

\* A cached answer of n characters, each character its own.
CachedText(n) == [i \in 1..n |-> ToString(i)]

\* RAGPipeline.generate for a question on repository repo.  ok: the model
\* answers (with the text <<LlmChar>>); otherwise its error leaves generate.
Generate(repo, ok) ==
    /\ ~generate_result.some
    /\ llm_generate_calls = 0
    /\ LET cached == CacheLookup("answer", repo, FALSE)
       IN  IF cached.some
           THEN /\ CacheGet("answer", repo, FALSE)
                /\ generate_result' = cached
                /\ UNCHANGED llm_generate_calls
           ELSE /\ misses' = misses + 1
                /\ llm_generate_calls' = llm_generate_calls + 1
                /\ IF ok
                   THEN /\ local' = LocalAfterSet("answer", repo, <<LlmChar>>)
                        /\ redis' = RedisAfterSet(CacheKey("answer", repo), <<LlmChar>>,
                                                  TtlSetting("answer"), FALSE)
                        /\ generate_result' = Some(<<LlmChar>>)
                   ELSE UNCHANGED <<local, redis, generate_result>>
                /\ UNCHANGED <<redis_enabled, hits, redis_errors, now>>
    /\ UNCHANGED <<lastOp, opCount, chatVars, full_response, pipelineVars>>

CachedAnswerInit ==
    /\ redis_enabled = FALSE
    /\ redis = [k \in CacheKeys |-> NoEntry]
    /\ \E n \in {1, ReplayFragmentChars, ReplayFragmentChars + 1, MaxReplayChars} :
          local = [ns \in Namespaces |-> [d \in Digests |->
                     IF ns = "answer" /\ d = "repo-1"
                     THEN [present |-> TRUE, value |-> CachedText(n),
                           expires |-> Max(1, TtlSetting(ns))]
                     ELSE NoEntry]]
    /\ hits = 0
    /\ misses = 0
    /\ redis_errors = 0
    /\ now = 0
    /\ lastOp = NoOp
    /\ opCount = 0
    /\ ChatInit
    /\ GenerateIdle
    /\ RetrieveIdle
    /\ RerankIdle
    /\ StagesIdle
    /\ settings \in [chat_max_concurrent_per_repo : 0..MaxPermitSetting,
                     chat_emit_meta_event : BOOLEAN]

CachedAnswerNext ==
    \/ \E repo \in Repos : Start("req-1", repo)
    \/ \E ok \in BOOLEAN : Retrieve("req-1", ok)
    \/ AfterSources("req-1")
    \/ DeadlineTimeout("req-1")
    \/ Cancel("req-1")
    \/ Close("req-1")
    \/ \E n \in 0..MaxFragments : GenLookup("req-1", FALSE, n)
    \/ ReplayNext("req-1")
    \/ LlmFragment("req-1")
    \/ \E n \in 0..MaxFragments : LlmFail("req-1", n)
    \/ \E commit_ok \in BOOLEAN : GenEnd("req-1", FALSE, commit_ok)
    \/ \E repo \in Repos, ok \in BOOLEAN : Generate(repo, ok)

CachedAnswerSpec == CachedAnswerInit /\ [][CachedAnswerNext]_vars

(***************************************************************************)
(* classify_intent_async and _expand_query called on their own.            *)
(***************************************************************************)
\* The questions: without a keyword, with one, with three keywords of
\* QUERY_EXPANSIONS, with two, three and four intents at the best score, and
\* about the entry point.
(***************************************************************************)
(* RAGPipeline._build_context.  A string is modelled by its lines (split   *)
(* at "\n"), each with its kind and its number of characters.              *)
(***************************************************************************)

\* settings.chat_context_max_chars
ChatContextMaxChars == 18000
\* _build_context: if len(content) > 1800: content = content[:1800] + ...
ContentCap == 1800
MaxContextChunks == 3

\* len(s) of the strings _build_context puts together
StrLen(s) ==
    CASE s = "### Files Referenced" -> 20
      [] s = "*Context truncated due to budget.*" -> 34
      [] s = "No relevant repository context found." -> 37
      [] s = "... [truncated]" -> 15
      [] s = "README.md" -> 9
      [] s = "src/app.py" -> 10
      [] s = "Makefile" -> 8
      [] s = "function" -> 8
      [] s = "unnamed" -> 7
      [] s = "main" -> 4
      [] s = "python" -> 6
      [] s = "markdown" -> 8
      [] s = "" -> 0

\* _language_for_file, on the paths of ContextChunks
LanguageForFile(file_path) ==
    CASE file_path = "src/app.py" -> "python"
      [] file_path = "README.md" -> "markdown"
      [] OTHER -> ""

\* len("\n".join(lines))
StringLen(lines) ==
    LET RECURSIVE Sum(_)
        Sum(k) == IF k = 0 THEN 0 ELSE lines[k].chars + Sum(k - 1)
    IN  IF lines = <<>> THEN 0 ELSE Sum(Len(lines)) + Len(lines) - 1

\* _build_context: body = f"{header}\n```{lang}\n{content}\n```\n", with
\* content = chunk.content.strip(), cut at 1800 characters
Body(chunk) ==
    LET stripped == chunk.content.chars
        digits(n) == IF n < 10 THEN 1 ELSE IF n < 100 THEN 2 ELSE 3
        name == IF chunk.chunk_name = "" THEN "unnamed" ELSE chunk.chunk_name
        header == 2 + StrLen(chunk.chunk_type) + 2 + 1 + 1 + StrLen(name) + 1 + 1
                  + 2 + digits(chunk.start_line) + 1 + digits(chunk.end_line) + 1
        content == IF stripped > ContentCap
                   THEN <<[kind |-> "content", chars |-> ContentCap],
                          [kind |-> "marker", chars |-> StrLen("... [truncated]")]>>
                   ELSE <<[kind |-> "content", chars |-> stripped]>>
    IN  <<[kind |-> "header", chars |-> header],
          [kind |-> "fence", chars |-> 3 + StrLen(LanguageForFile(chunk.file_path))]>>
        \o content
        \o <<[kind |-> "fence", chars |-> 3], [kind |-> "blank", chars |-> 0]>>

\* "*Context truncated due to budget.*"
Notice == [kind |-> "notice", chars |-> StrLen("*Context truncated due to budget.*")]

\* _build_context: the loop over the chunks of one file, from chunk j on
RECURSIVE ChunksEmitted(_, _, _, _)
ChunksEmitted(file_chunks, j, st, budget) ==
    IF j > Len(file_chunks) THEN st
    ELSE LET body == Body(file_chunks[j])
         IN  IF st.total_chars + StringLen(body) > budget
             THEN [parts |-> Append(st.parts, Notice), total_chars |-> budget]
             ELSE ChunksEmitted(file_chunks, j + 1,
                                [parts |-> st.parts \o body,
                                 total_chars |-> st.total_chars + StringLen(body)],
                                budget)

\* _build_context: the loop over by_file.items(), from file k on
RECURSIVE FilesEmitted(_, _, _, _, _)
FilesEmitted(cs, files, k, st, budget) ==
    IF k > Len(files) THEN st.parts
    ELSE IF st.total_chars >= budget THEN Append(st.parts, Notice)
    ELSE LET file_chunks == SelectSeq(cs, LAMBDA c : c.file_path = files[k])
             section == [kind |-> "section", chars |-> 4 + StrLen(files[k])]
         IN  FilesEmitted(cs, files, k + 1,
                          ChunksEmitted(file_chunks, 1,
                                        [parts |-> Append(st.parts, section),
                                         total_chars |-> st.total_chars],
                                        budget),
                          budget)

\* _build_context
BuildContext(cs, max_chars) ==
    IF cs = <<>>
    THEN <<[kind |-> "sentinel", chars |-> StrLen("No relevant repository context found.")]>>
    ELSE LET budget == IF max_chars # 0 THEN max_chars ELSE ChatContextMaxChars
             files == AppendAllNew(<<>>, [k \in 1..Len(cs) |-> cs[k].file_path])
             listing == [k \in 1..Len(files) |->
                            [kind |-> "listing", chars |-> 4 + StrLen(files[k])]]
         IN  FilesEmitted(cs, files, 1,
                          [parts |-> <<[kind |-> "title", chars |-> StrLen("### Files Referenced")]>>
                                     \o listing \o <<[kind |-> "blank", chars |-> 0]>>,
                           total_chars |-> 0],
                          budget)

\* The chunks handed to _build_context: content is the text with the
\* whitespace around it.
ContextChunks ==
    {[file_path |-> f, chunk_type |-> "function",
      chunk_name |-> IF f = "src/app.py" THEN "main" ELSE "",
      start_line |-> 1, end_line |-> 20, content |-> c] :
        f \in {"src/app.py", "README.md", "Makefile"},
        c \in {[space |-> 0, chars |-> 40], [space |-> 2, chars |-> 420],
               [space |-> 0, chars |-> 1900]}}

\* context = self._build_context(chunks, max_chars)
BuildContextCall(cs, max_chars) ==
    /\ ret_pc = "idle"
    /\ ret_pc' = "assembled"
    /\ context_args' = [chunks |-> cs, max_chars |-> max_chars]
    /\ context' = Some(BuildContext(cs, max_chars))
    /\ UNCHANGED <<ret_args, intent, profile, expanded_queries, ret_next, all_chunks, chunks,
                   cache_hit, reranked, calls, ret_result>>
    /\ UNCHANGED <<cacheVars, chatVars, answerVars, rerankVars, scoreVars>>

(***************************************************************************)
(* ChromaStore.hybrid_search: the blend of the similarity score with the   *)
(* boosts of a weight profile.  Scores and weights are in hundredths, a     *)
(* final score in ten-thousandths.                                          *)
(***************************************************************************)

\* hybrid_search: alpha: float = 0.5
DefaultAlpha == 50
MaxSearchResults == 3

\* What self.search returns is drawn from these results (id, score, content,
\* metadata).
HybridPool ==
    {[id |-> "trivial", score |-> 72, content |-> "export {};",
      metadata |-> [file_path |-> "packages/ui/index.ts", chunk_type |-> "file_summary"]],
     [id |-> "docs", score |-> 51,
      content |-> "Documenso aims to be the world's most trusted document-signing tool.",
      metadata |-> [file_path |-> "README.md", chunk_type |-> "file_summary"]],
     [id |-> "manifest", score |-> 50, content |-> "{\"dependencies\":{\"zod\":\"^3.0.0\"}}",
      metadata |-> [file_path |-> "packages/api/package.json", chunk_type |-> "file_summary"]],
     [id |-> "code", score |-> 60, content |-> "def login(): raise AuthError",
      metadata |-> [file_path |-> "src/auth.py", chunk_type |-> "function"]]}

\* The query texts, word by word.
HybridQueries ==
    {<<"What", "are", "the", "main", "features", "of", "this", "application", "?">>,
     <<"What", "are", "the", "main", "features", "of", "this", "application", "?",
       "README", "overview">>,
     <<"entry", "index", "packages", "ui", "export", "ts">>,
     <<"where", "is", "auth", "logic">>,
     <<"ui", "index">>,
     <<"what", "is", "this", "?">>}

\* weight_profiles
WeightProfiles(alpha) ==
    [docs_first |->
       [vector_alpha |-> 45, keyword_weight |-> 18, file_weight |-> 22, docs_boost |-> 45,
        manifest_boost |-> 12, trivial_penalty |-> 55, module_weight |-> 5,
        symbol_weight |-> 8],
     code_first |->
       [vector_alpha |-> 65, keyword_weight |-> 15, file_weight |-> 18, docs_boost |-> 8,
        manifest_boost |-> 8, trivial_penalty |-> 30, module_weight |-> 18,
        symbol_weight |-> 14],
     stack |->
       [vector_alpha |-> 50, keyword_weight |-> 16, file_weight |-> 20, docs_boost |-> 22,
        manifest_boost |-> 40, trivial_penalty |-> 35, module_weight |-> 8,
        symbol_weight |-> 10],
     location |->
       [vector_alpha |-> 55, keyword_weight |-> 12, file_weight |-> 34, docs_boost |-> 10,
        manifest_boost |-> 12, trivial_penalty |-> 25, module_weight |-> 16,
        symbol_weight |-> 8],
     error_focus |->
       [vector_alpha |-> 58, keyword_weight |-> 20, file_weight |-> 18, docs_boost |-> 8,
        manifest_boost |-> 10, trivial_penalty |-> 25, module_weight |-> 16,
        symbol_weight |-> 14],
     balanced |->
       [vector_alpha |-> alpha, keyword_weight |-> 15, file_weight |-> 20, docs_boost |-> 18,
        manifest_boost |-> 15, trivial_penalty |-> 25, module_weight |-> 15,
        symbol_weight |-> 10]]

\* _normalize_query_terms: the runs of [a-zA-Z0-9_.-] of the lowered text that
\* are longer than one character and no stopword.  Every word of the model's
\* queries is one such run or a punctuation mark, and none has one character.
NormalizeQueryTerms(query_text) ==
    LET stopwords == {"a", "an", "and", "are", "as", "at", "be", "by", "for", "from", "how",
                      "in", "is", "it", "of", "on", "or", "that", "the", "this", "to",
                      "what", "where", "which", "with"}
    IN  SelectSeq(LowerQuery(query_text),
                  LAMBDA term : term \notin PunctuationWords /\ term \notin stopwords)

\* What len(text), s in text, text.startswith(s) and text.endswith(s) give on
\* the lowered contents, paths and query words of the model, for the strings s
\* hybrid_search looks for.
TextFacts(text) ==
    CASE text = "export {};" ->
           [len |-> 10, sub |-> {"export"},
            pre |-> {"export"}, suf |-> {}]
      [] text = "packages/ui/index.ts" ->
           [len |-> 20, sub |-> {"index", "packages", "ts", "ui"},
            pre |-> {}, suf |-> {}]
      [] text = "packagesuiindex.ts" ->
           [len |-> 18, sub |-> {"index", "packages", "ts", "ui", "uiindex"},
            pre |-> {}, suf |-> {}]
      [] text = "documenso aims to be the world's most trusted document-signing tool." ->
           [len |-> 68, sub |-> {},
            pre |-> {}, suf |-> {}]
      [] text = "readme.md" ->
           [len |-> 9, sub |-> {"readme"},
            pre |-> {}, suf |-> {".md", "readme.md"}]
      [] text = "{\"dependencies\":{\"zod\":\"^3.0.0\"}}" ->
           [len |-> 33, sub |-> {},
            pre |-> {}, suf |-> {}]
      [] text = "packages/api/package.json" ->
           [len |-> 25, sub |-> {".json", "api", "packages"},
            pre |-> {}, suf |-> {"package.json"}]
      [] text = "packagesapipackage.json" ->
           [len |-> 23, sub |-> {".json", "api", "packages"},
            pre |-> {}, suf |-> {"package.json"}]
      [] text = "def login(): raise autherror" ->
           [len |-> 28, sub |-> {"auth", "error", "raise"},
            pre |-> {}, suf |-> {}]
      [] text = "src/auth.py" ->
           [len |-> 11, sub |-> {"auth", "src/"},
            pre |-> {}, suf |-> {}]
      [] text = "srcauth.py" ->
           [len |-> 10, sub |-> {"auth"},
            pre |-> {}, suf |-> {}]
      [] text = "main" ->
           [len |-> 4, sub |-> {"main"},
            pre |-> {}, suf |-> {}]
      [] text = "features" ->
           [len |-> 8, sub |-> {"features"},
            pre |-> {}, suf |-> {}]
      [] text = "application" ->
           [len |-> 11, sub |-> {"app", "application"},
            pre |-> {}, suf |-> {}]
      [] text = "readme" ->
           [len |-> 6, sub |-> {"readme"},
            pre |-> {}, suf |-> {"readme"}]
      [] text = "overview" ->
           [len |-> 8, sub |-> {"overview"},
            pre |-> {}, suf |-> {}]
      [] text = "entry" ->
           [len |-> 5, sub |-> {"entry"},
            pre |-> {}, suf |-> {}]
      [] text = "index" ->
           [len |-> 5, sub |-> {"index"},
            pre |-> {}, suf |-> {}]
      [] text = "packages" ->
           [len |-> 8, sub |-> {"packages"},
            pre |-> {}, suf |-> {}]
      [] text = "ui" ->
           [len |-> 2, sub |-> {"ui"},
            pre |-> {}, suf |-> {}]
      [] text = "export" ->
           [len |-> 6, sub |-> {"export"},
            pre |-> {"export"}, suf |-> {}]
      [] text = "ts" ->
           [len |-> 2, sub |-> {"ts"},
            pre |-> {}, suf |-> {}]
      [] text = "auth" ->
           [len |-> 4, sub |-> {"auth"},
            pre |-> {}, suf |-> {}]
      [] text = "logic" ->
           [len |-> 5, sub |-> {"logic"},
            pre |-> {}, suf |-> {}]
      [] OTHER -> [len |-> 0, sub |-> {}, pre |-> {}, suf |-> {}]

\* "".join(query_terms)
JoinTerms(query_terms) ==
    CASE query_terms = <<"main", "features", "application">> -> "mainfeaturesapplication"
      [] query_terms = <<"main", "features", "application", "readme", "overview">> -> "mainfeaturesapplicationreadmeoverview"
      [] query_terms = <<"entry", "index", "packages", "ui", "export", "ts">> -> "entryindexpackagesuiexportts"
      [] query_terms = <<"auth", "logic">> -> "authlogic"
      [] query_terms = <<"ui", "index">> -> "uiindex"
      [] OTHER -> ""

\* file_path.replace("/", "")
CompactPath(file_path) ==
    CASE file_path = "packages/ui/index.ts" -> "packagesuiindex.ts"
      [] file_path = "packages/api/package.json" -> "packagesapipackage.json"
      [] file_path = "src/auth.py" -> "srcauth.py"
      [] OTHER -> file_path

\* ChromaStore._is_docs_path
StoreIsDocsPath(file_path) ==
    \/ "readme.md" \in TextFacts(file_path).suf
    \/ "readme" \in TextFacts(file_path).suf
    \/ ".md" \in TextFacts(file_path).suf
    \/ ".mdx" \in TextFacts(file_path).suf
    \/ "docs/" \in TextFacts(file_path).pre
    \/ "/docs/" \in TextFacts(file_path).sub

\* ChromaStore._is_manifest_path
IsManifestPath(file_path) ==
    TextFacts(file_path).suf \cap {"package.json", "requirements.txt", "pyproject.toml",
                                   "go.mod", "cargo.toml", "pom.xml"} # {}

\* ChromaStore._is_trivial_chunk.  The model's contents have no whitespace
\* around them and no run of whitespace, so compact is the lowered content.
IsTrivialChunk(content, chunk_type) ==
    LET compact == Lower(content)
    IN  \/ TextFacts(compact).len <= 32 /\ compact \in {"export {};", "export {}"}
        \/ /\ chunk_type = "file_summary"
           /\ TextFacts(compact).len <= 80
           /\ "export" \in TextFacts(compact).pre

\* The raw similarity alone, no blend with the boosts and no penalty.
FinalScoreMutantRawScore(r, query_text, prof, alpha) == 100 * r.score

\* hybrid_search: final_score of the result r
FinalScore(r, query_text, prof, alpha) ==
    LET query_lower == LowerQuery(query_text)
        query_terms == NormalizeQueryTerms(query_text)
        weights == IF prof \in DOMAIN WeightProfiles(alpha)
                   THEN WeightProfiles(alpha)[prof]
                   ELSE WeightProfiles(alpha)["balanced"]
        important_patterns ==
            {[key |-> "entry", patterns |-> {"index", "main", "app", "server", "start"}],
             [key |-> "config", patterns |-> {"config", "settings", "env", ".json"}],
             [key |-> "route", patterns |-> {"route", "api", "handler", "controller"}],
             [key |-> "model", patterns |-> {"model", "schema", "type", "interface"}]}
        content_lower == Lower(r.content)
        file_path == Lower(r.metadata.file_path)
        chunk_type == r.metadata.chunk_type
        keyword_matches ==
            Cardinality({i \in 1..Len(query_terms) :
                            query_terms[i] \in TextFacts(content_lower).sub})
        keyword_boost == keyword_matches * weights.keyword_weight
        file_boost ==
            Cardinality({i \in 1..Len(query_terms) :
                            query_terms[i] \in TextFacts(file_path).sub}) * weights.file_weight
        pattern_boost ==
            30 * Cardinality({p \in important_patterns :
                                /\ \E i \in 1..Len(query_lower) :
                                      p.key \in TextFacts(query_lower[i]).sub
                                /\ p.patterns \cap TextFacts(file_path).sub # {}})
        type_boost ==
            IF chunk_type \in {"file_summary", "raw_file"} THEN 20
            ELSE IF chunk_type = "module" THEN weights.module_weight
            ELSE IF chunk_type \in {"function", "class", "method"} THEN weights.symbol_weight
            ELSE 0
        docs_boost == IF StoreIsDocsPath(file_path) THEN weights.docs_boost ELSE 0
        manifest_boost == IF IsManifestPath(file_path) THEN weights.manifest_boost ELSE 0
        location_boost ==
            IF /\ prof = "location"
               /\ query_terms # <<>>
               /\ JoinTerms(query_terms) \in TextFacts(CompactPath(file_path)).sub
            THEN 45 ELSE 0
        error_boost ==
            IF /\ prof = "error_focus"
               /\ TextFacts(content_lower).sub
                      \cap {"error", "exception", "raise", "throw", "retry", "fallback"} # {}
            THEN 25 ELSE 0
        trivial_penalty ==
            IF IsTrivialChunk(r.content, chunk_type) THEN weights.trivial_penalty ELSE 0
        total_boost == keyword_boost + file_boost + pattern_boost + type_boost + docs_boost
                         + manifest_boost + location_boost + error_boost
        heuristic_score == IF total_boost <= 150 THEN total_boost ELSE 150
    IN  weights.vector_alpha * r.score + (100 - weights.vector_alpha) * heuristic_score
          - 100 * trivial_penalty

\* hybrid_search, given what self.search returned
HybridSearch(results, query_text, limit, prof, path_allowlist) ==
    LET stripped == [i \in 1..Len(path_allowlist) |->
                        IF path_allowlist[i] = " " THEN "" ELSE path_allowlist[i]]
        allowlist == SelectSeq([i \in 1..Len(stripped) |-> Lower(stripped[i])],
                               LAMBDA p : p # "")
        kept == SelectSeq(results,
                          LAMBDA r : \/ allowlist = <<>>
                                     \/ \E i \in 1..Len(allowlist) :
                                           allowlist[i]
                                             \in TextFacts(Lower(r.metadata.file_path)).sub)
        scored == [i \in 1..Len(kept) |->
                      [kept[i] EXCEPT !.score =
                           FinalScore(kept[i], query_text, prof, DefaultAlpha)]]
    IN  TakeChars(SortByScore(scored), limit)

\* results = await self._vector_store.hybrid_search(...).  results: what
\* self.search returns for limit * 4, distinct results of the collection.
HybridSearchCall(query_text, limit, prof, path_allowlist, results) ==
    /\ ret_pc = "idle"
    /\ Len(results) <= limit * 4
    /\ \A i, j \in 1..Len(results) : results[i].id = results[j].id => i = j
    /\ ret_pc' = "searched"
    /\ hybrid_args' = [query_text |-> query_text, limit |-> limit, profile |-> prof,
                       path_allowlist |-> path_allowlist, results |-> results]
    /\ boosted' = Some(HybridSearch(results, query_text, limit, prof, path_allowlist))
    /\ UNCHANGED <<ret_args, intent, profile, expanded_queries, ret_next, all_chunks, chunks,
                   cache_hit, reranked, calls, ret_result>>
    /\ UNCHANGED <<cacheVars, chatVars, answerVars, rerankVars, assembleVars>>

ClassifyQueries ==
    {<<"hello">>, <<"login", "handler">>, <<"Overview", "?">>,
     <<"how", "does", "auth", "error">>, <<"where", "is", "database", "feature">>,
     <<"stack", "error">>, <<"flow", "stack", "error">>,
     <<"flow", "stack", "find", "error">>, <<"main", "entry", "stack">>}

\* intent = await self.classify_intent_async(query, mode).  response: what
\* the tie-break collaborator answers if it is asked.
ClassifyCall(query, mode, response) ==
    /\ ret_pc = "idle"
    /\ ret_pc' = "classified"
    /\ ret_args' = [query |-> query, mode |-> mode, limit |-> 0]
    /\ intent' = ClassifyIntentAsync(query, mode, response)
    /\ profile' = IntentProfile(ClassifyIntentAsync(query, mode, response))
    /\ calls' = IF TiebreakCalled(query, mode) THEN <<"tiebreak">> ELSE <<>>
    /\ UNCHANGED <<expanded_queries, ret_next, all_chunks, chunks, cache_hit, reranked,
                   ret_result, settings>>
    /\ UNCHANGED <<cacheVars, chatVars, answerVars, rerankVars, assembleVars, scoreVars>>

\* expanded_queries = self._expand_query(query, intent)
ExpandCall(query, i) ==
    /\ ret_pc = "idle"
    /\ ret_pc' = "expanded"
    /\ ret_args' = [query |-> query, mode |-> "auto", limit |-> 0]
    /\ intent' = i
    /\ expanded_queries' = ExpandQuery(query, i)
    /\ UNCHANGED <<profile, ret_next, all_chunks, chunks, cache_hit, reranked, calls,
                   ret_result, settings>>
    /\ UNCHANGED <<cacheVars, chatVars, answerVars, rerankVars, assembleVars, scoreVars>>

ClassifyInit ==
    /\ redis_enabled = FALSE
    /\ CacheInit
    /\ ChatInit
    /\ GenerateIdle
    /\ RetrieveIdle
    /\ RerankIdle
    /\ StagesIdle
    /\ settings \in [chat_max_concurrent_per_repo : {0},
                     chat_emit_meta_event : {FALSE},
                     chat_intent_llm_tiebreak_enabled : BOOLEAN,
                     chat_docs_first_overview_enabled : BOOLEAN]

ClassifySpec ==
    ClassifyInit
    /\ [][ \/ \E query \in ClassifyQueries, mode \in {"auto", "", "location", "bogus"},
                 response \in {[failed |-> TRUE, mentions |-> {}]}
                               \cup [failed : {FALSE}, mentions : SUBSET Intents] :
                 ClassifyCall(query, mode, response)
           \/ \E query \in ClassifyQueries, i \in Intents : ExpandCall(query, i)
           \/ \E cs \in SeqsUpTo(ContextChunks, MaxContextChunks), max_chars \in {0, 100, 500} :
                 BuildContextCall(cs, max_chars) ]_vars

\* The weighted scoring alone: one call of hybrid_search, for every query,
\* limit, profile name, allowlist and result list of the bounds.  " " is an
\* allowlist entry that p.strip() empties.
HybridInit ==
    /\ ClassifyInit
    /\ ~settings.chat_intent_llm_tiebreak_enabled
    /\ settings.chat_docs_first_overview_enabled

HybridSpec ==
    HybridInit
    /\ [][ /\ ret_pc = "idle"
           /\ \E query_text \in HybridQueries, limit \in {1, 2, 3},
                 prof \in DOMAIN WeightProfiles(DefaultAlpha) \cup {"bogus"},
                 path_allowlist \in {<<>>, <<"src/">>, <<"README">>, <<" ">>},
                 results \in SeqsUpTo(HybridPool, MaxSearchResults) :
                 HybridSearchCall(query_text, limit, prof, path_allowlist, results) ]_vars

(***************************************************************************)
(* The cache driver: callers of the cache and the passage of time.         *)
(***************************************************************************)
GetOp(ns, d, fails) ==
    /\ fails => redis_enabled
    /\ opCount < MaxOps
    /\ opCount' = opCount + 1
    /\ CacheGet(ns, d, fails)
    /\ lastOp' = [op |-> "get", ns |-> ns, digest |-> d,
                  value |-> CacheLookup(ns, d, fails).value,
                  hit |-> CacheLookup(ns, d, fails).some,
                  redis_hit |-> RedisGet(CacheKey(ns, d), fails).some,
                  failed |-> fails]
    /\ UNCHANGED <<chatVars, answerVars, pipelineVars>>

SetOp(ns, d, v, fails) ==
    /\ fails => redis_enabled
    /\ opCount < MaxOps
    /\ opCount' = opCount + 1
    /\ CacheSet(ns, d, v, fails)
    /\ lastOp' = [op |-> "set", ns |-> ns, digest |-> d, value |-> v,
                  hit |-> FALSE, redis_hit |-> FALSE, failed |-> fails]
    /\ UNCHANGED <<chatVars, answerVars, pipelineVars>>

Tick ==
    /\ now < MaxTime
    /\ now' = now + 1
    /\ lastOp' = NoOp
    /\ UNCHANGED <<redis_enabled, redis, local, hits, misses, redis_errors, opCount>>
    /\ UNCHANGED <<chatVars, answerVars, pipelineVars>>

\* The keys the cache driver uses: one digest in each namespace (the keys of
\* the namespaces differ by their prefix; redis is one store for all of them).
DriverDigests == {"repo-1"}

CacheNext ==
    \/ \E ns \in Namespaces, d \in DriverDigests, fails \in BOOLEAN : GetOp(ns, d, fails)
    \/ \E ns \in Namespaces, d \in DriverDigests, v \in Values, fails \in BOOLEAN :
          SetOp(ns, d, v, fails)
    \/ Tick

CacheDriverInit ==
    /\ redis_enabled \in BOOLEAN
    /\ CacheInit
    /\ ChatInit
    /\ GenerateIdle
    /\ RetrieveIdle
    /\ RerankIdle
    /\ StagesIdle
    /\ settings = [chat_max_concurrent_per_repo |-> 0, chat_emit_meta_event |-> FALSE]

CacheSpec == CacheDriverInit /\ [][CacheNext]_vars

(***************************************************************************)
(* Properties of the cache, checked under CacheSpec.                       *)
(***************************************************************************)
\* The step is a get of the cache driver.
DriverGet == opCount' = opCount + 1 /\ lastOp'.op = "get"

\* The entry of a tier is present and its time is not up.
LocalLive(ns, d) == local[ns][d].present /\ now < local[ns][d].expires
RedisLive(key) == redis_enabled /\ redis[key].present /\ now < redis[key].expires

\* C9 as stated: in every namespace, a get of k that directly follows
\* set(k, v) returns v, whatever the distributed tier did before and does now,
\* and a get of k made when the TTL since the last set of k has elapsed (the
\* in-process entry of k, written by every set, is gone) is a miss.
C9_SetThenGet ==
    [][DriverGet =>
          LET ns == lastOp'.ns
              d == lastOp'.digest
          IN  /\ (lastOp.op = "set" /\ lastOp.ns = ns /\ lastOp.digest = d) =>
                    (lastOp'.hit /\ lastOp'.value = lastOp.value)
              /\ ~LocalLive(ns, d) => ~lastOp'.hit
      ]_vars

\* C10: a get returns the value of the distributed tier whenever that tier
\* answers with one, whatever the in-process tier holds, and the value of the
\* in-process tier otherwise; a hit adds one to hits and a miss one to misses;
\* the get leaves both tiers as they were.
C10_GetOrderNoWrite ==
    [][DriverGet =>
          LET ns == lastOp'.ns
              d == lastOp'.digest
              key == CacheKey(ns, d)
          IN  /\ lastOp'.redis_hit =>
                    /\ RedisLive(key)
                    /\ lastOp'.hit
                    /\ lastOp'.value = JsonLoads(redis[key].value)
              /\ (RedisLive(key) /\ redis_errors' = redis_errors) => lastOp'.redis_hit
              /\ ~lastOp'.redis_hit =>
                    /\ lastOp'.hit <=> LocalLive(ns, d)
                    /\ LocalLive(ns, d) => lastOp'.value = local[ns][d].value
              /\ hits' = hits + (IF lastOp'.hit THEN 1 ELSE 0)
              /\ misses' = misses + (IF lastOp'.hit THEN 0 ELSE 1)
              /\ redis' = redis
              /\ local' = local
      ]_vars

\* A get was answered by the distributed tier while the in-process tier held
\* another value for the key.
C10_Witness ==
    /\ lastOp.op = "get"
    /\ lastOp.redis_hit
    /\ LocalLive(lastOp.ns, lastOp.digest)
    /\ local[lastOp.ns][lastOp.digest].value # lastOp.value

\* C11: a cache call in which the distributed tier fails completes like any
\* other call: the get returns what the in-process tier holds (or misses), the
\* set stores the value in the in-process tier with the namespace TTL and
\* leaves the distributed tier as it was, and redis_errors grows by one for
\* the failed call and by nothing for a call without failure.
C11_RedisFailureSwallowed ==
    [][opCount' = opCount + 1 =>
          LET ns == lastOp'.ns
              d == lastOp'.digest
          IN  /\ lastOp'.op \in {"get", "set"}
              /\ redis_errors' = redis_errors + (IF lastOp'.failed THEN 1 ELSE 0)
              /\ lastOp'.op = "set" =>
                    /\ local'[ns][d].present
                    /\ local'[ns][d].value = lastOp'.value
                    /\ local'[ns][d].expires = now + Max(1, TtlSetting(ns))
              /\ (lastOp'.op = "set" /\ lastOp'.failed) => redis' = redis
              /\ (lastOp'.op = "get" /\ lastOp'.failed) =>
                    /\ ~lastOp'.redis_hit
                    /\ lastOp'.hit <=> LocalLive(ns, d)
                    /\ LocalLive(ns, d) => lastOp'.value = local[ns][d].value
      ]_vars

\* A set whose redis write failed was followed by a get whose redis read
\* failed and which was answered by the in-process tier with the value set.
C11_Witness ==
    /\ lastOp.op = "get"
    /\ lastOp.failed
    /\ lastOp.hit
    /\ redis_errors = 2
    /\ ~redis[CacheKey(lastOp.ns, lastOp.digest)].present

(***************************************************************************)
(* Properties of _rerank_chunks, checked under RerankSpec.                 *)
(***************************************************************************)
\* The ids of a list of chunks.
IdsOf(cs) == {cs[k].id : k \in 1..Len(cs)}

\* The position at which x first occurs in the sequence xs.
FirstIndex(xs, x) == CHOOSE i \in 1..Len(xs) : xs[i] = x /\ \A j \in 1..(i - 1) : xs[j] # x

\* The ids the response names for a list of chunks: the entries of its
\* ranked_ids list when the text is or holds a JSON object whose list names an
\* id of the chunks, else the id-shaped tokens of the text.
NamedIds(cs, response) ==
    IF /\ response.form \in {"object", "fenced", "embedded"}
       /\ response.ranked_kind = "list"
       /\ \E k \in 1..Len(response.ranked) : response.ranked[k] \in IdsOf(cs)
    THEN response.ranked
    ELSE IdTokens(response)

\* C14: for every list of chunks with distinct ids and every response, the
\* list returned is a permutation of the input; when the call did not fail it
\* begins with the ids the response names that are ids of the input, each once,
\* in the order of their first mention, and goes on with the other chunks of
\* the input in their original order.
C14_RerankPermutation ==
    rerank_output.some =>
        LET input == rerank_input
            out == rerank_output.value
            named == IF rerank_response.failed THEN <<>>
                     ELSE NamedIds(input, rerank_response)
            first == {id \in IdsOf(input) : id \in Range(named)}
            n == Cardinality(first)
        IN  /\ Len(out) = Len(input)
            /\ Range(out) = Range(input)
            /\ \A i, j \in 1..Len(out) : i # j => out[i] # out[j]
            /\ \A k \in 1..n : out[k].id \in first
            /\ \A i, j \in 1..n :
                  i < j => FirstIndex(named, out[i].id) < FirstIndex(named, out[j].id)
            /\ SubSeq(out, n + 1, Len(out)) = SelectSeq(input, LAMBDA c : c.id \notin first)

\* Three chunks were reranked by a response that names the third, an unknown
\* id and the third again: the third chunk moved to the front.
C14_Witness ==
    /\ rerank_output.some
    /\ Len(rerank_input) = 3
    /\ ~rerank_response.failed
    /\ rerank_response.form = "object"
    /\ rerank_response.ranked = <<rerank_input[3].id, UnknownId>>
    /\ rerank_response.extra = <<rerank_input[3].id>>
    /\ rerank_output.value = <<rerank_input[3], rerank_input[1], rerank_input[2]>>

\* C15 as stated: for every response that is not a parseable JSON object, the
\* list returned is the input list.
C15_MalformedKeepsOrder ==
    (rerank_output.some /\ ~rerank_response.failed /\ rerank_response.form # "object")
        => rerank_output.value = rerank_input

\* C15 amended: for a response that is not a parseable JSON object, the list
\* returned is the input list when neither a JSON object inside the text nor
\* the id-shaped tokens of the text name an id of the input; when they do, the
\* first id so named comes first.
C15_MalformedWithoutIdsKeepsOrder ==
    (rerank_output.some /\ ~rerank_response.failed /\ rerank_response.form # "object")
        => LET named == NamedIds(rerank_input, rerank_response)
               valid == {k \in 1..Len(named) : named[k] \in IdsOf(rerank_input)}
           IN  IF valid = {}
               THEN rerank_output.value = rerank_input
               ELSE rerank_output.value[1].id = named[CHOOSE k \in valid : \A j \in valid : k <= j]

\* A text without JSON that names only an unknown id left three chunks as they
\* were.
C15_Witness ==
    /\ rerank_output.some
    /\ Len(rerank_input) = 3
    /\ ~rerank_response.failed
    /\ rerank_response.form = "prose"
    /\ rerank_response.extra = <<UnknownId>>
    /\ rerank_output.value = rerank_input

(***************************************************************************)
(* Properties of retrieve, checked under RetrieveSpec.                     *)
(***************************************************************************)
\* The calls of the retrieval work proper: embedding, search, cache write.
SearchCalls == {"get_embedding", "embed_query", "set_embedding", "hybrid_search",
                "set_retrieval"}

\* C12: when the retrieval cache holds an entry for the request's key the
\* lookup sets cache_hit, and from then on the call makes no embedding call, no
\* search and no write to the cache and reports cache_hit = true; when the
\* cache holds no entry the lookup leaves cache_hit false and the call reports
\* cache_hit = false.
C12_CacheHitSkipsSearch ==
    [][ /\ (ret_pc = "lookup" /\ ret_pc' # "lookup") =>
               cache_hit' = CacheLookup("retrieval",
                                        RetrievalDigest(NormalizeQuery(ret_args.query),
                                                        intent, profile),
                                        FALSE).some
        /\ ret_pc \notin {"idle", "lookup"} =>
               /\ cache_hit' = cache_hit
               /\ cache_hit => /\ Range(calls') \cap SearchCalls = {}
                               /\ local' = local
                               /\ redis' = redis
        /\ ret_result'.some => ret_result'.value.diagnostics.cache_hit = cache_hit'
      ]_vars

\* A call answered from the retrieval cache has returned: it asked the cache,
\* reranked and returned, and reports the hit.
C12_Witness ==
    /\ ret_pc = "returned"
    /\ cache_hit
    /\ ret_result.value.diagnostics.cache_hit
    /\ ret_result.value.chunks # <<>>
    /\ calls = <<"get_retrieval", "rerank", "return">>

\* C16: when the rerank step fails (the collaborator call raises, or the
\* parsing of its response yields no ranked id) _rerank_chunks returns its
\* input unchanged and retrieve goes on: it does not raise, and it returns the
\* first limit candidates in score order.
C16_RerankFailureKeepsOrder ==
    (rerank_output.some
        /\ (rerank_response.failed \/ RankedIds(rerank_input, rerank_response) = <<>>))
    => /\ rerank_output.value = rerank_input
       /\ chunks = SortedCandidates
       /\ ret_pc \in {"select", "returned"}
       /\ ret_pc = "returned" =>
             /\ ret_result.some
             /\ ret_result.value.chunks = TakeChars(SortedCandidates, ret_args.limit)
             /\ ret_result.value.diagnostics.reranked

\* A call whose rerank collaborator raised has returned three chunks.
C16_Witness ==
    /\ ret_pc = "returned"
    /\ rerank_output.some
    /\ rerank_response.failed
    /\ Len(rerank_input) = 6
    /\ Len(ret_result.value.chunks) = 3

\* C17: in the order of a call's collaborator and cache calls nothing but
\* the return follows the rerank call, and nothing follows the return, so the
\* embedding calls, the searches and the write of the retrieval cache come
\* before the rerank; the result exists only once the rerank or its skip is
\* over; and the entry the call wrote to the retrieval cache is the merged
\* candidates in descending score order, cut at the retrieval limit, also
\* after the rerank has reordered them.
C17_RetrievalBeforeRerank ==
    /\ \A j, k \in 1..Len(calls) :
          (j < k /\ calls[j] = "rerank") => calls[k] = "return"
    /\ \A j \in 1..Len(calls) : calls[j] = "return" => j = Len(calls)
    /\ ret_result.some =>
          /\ ret_pc = "returned"
          /\ reranked <=> "rerank" \in Range(calls)
    /\ "set_retrieval" \in Range(calls) =>
          LET entry == local["retrieval"][RetrievalDigest(NormalizeQuery(ret_args.query),
                                                         intent, profile)]
          IN  /\ entry.present
              /\ \A k \in 1..(Len(entry.value) - 1) :
                     entry.value[k].score >= entry.value[k + 1].score
              /\ Len(entry.value) = IF Len(all_chunks) < RetrievalLimit
                                    THEN Len(all_chunks) ELSE RetrievalLimit
              /\ \A k \in 1..Len(entry.value) :
                     DeserializeChunk(entry.value[k]) \in Range(all_chunks)

\* A call has searched, written the retrieval cache, reranked and returned;
\* the rerank changed the order and the cache entry holds the score order.
C17_Witness ==
    /\ ret_pc = "returned"
    /\ "set_retrieval" \in Range(calls)
    /\ reranked
    /\ chunks # SortedCandidates
    /\ local["retrieval"][RetrievalDigest(NormalizeQuery(ret_args.query), intent, profile)].value
          = [k \in 1..Len(SortedCandidates) |-> SerializeChunk(SortedCandidates[k])]

\* C18: a failure of embed_query or of hybrid_search, for whichever expanded
\* query, ends the call with the error: there is no result, and the retrieval
\* cache is as it was (only a step that calls set_retrieval changes it, and a
\* failed call makes none).
C18_FailureFailsRetrieve ==
    [][ /\ (EmbedCall(FALSE) \/ \E results \in SearchResults : Search(FALSE, results)) =>
               /\ ret_pc' = "raised"
               /\ local'["retrieval"] = local["retrieval"]
        /\ ret_pc' = "raised" =>
               /\ ~ret_result'.some
               /\ "set_retrieval" \notin Range(calls')
               /\ "return" \notin Range(calls')
        /\ local'["retrieval"] # local["retrieval"] =>
               calls' = Append(calls, "set_retrieval")
      ]_vars

\* The search of the second expanded query failed after the first had found
\* chunks: the call ended without a result.
C18_Witness ==
    /\ ret_pc = "raised"
    /\ ret_next = 2
    /\ all_chunks # <<>>
    /\ calls[Len(calls)] = "hybrid_search"
    /\ ~ret_result.some
    /\ \A d \in RetrieveDigests : ~local["retrieval"][d].present

\* C20: when the mode is an intent literal, the intent of the call is the
\* mode, the tie-break collaborator is not asked and the result reports the
\* mode, whatever the question and the settings.
C20_ModeOverrideWins ==
    (ret_pc # "idle" /\ ModeOverrides(ret_args.mode)) =>
        /\ intent = ret_args.mode
        /\ "tiebreak" \notin Range(calls)
        /\ ret_result.some => ret_result.value.intent = ret_args.mode

(***************************************************************************)
(* Properties of the answer cache, checked under CachedAnswerSpec.         *)
(***************************************************************************)
\* C13: on an answer-cache hit generate returns the cached text without
\* calling the model and without writing the cache; generate_stream starts
\* the replay of the cached text, and while it replays, every fragment is the
\* next 1 to 320 characters of the text, the fragments received so far and the
\* rest still to replay make up the cached text, the model stream is never
\* started and the cache is not written; at the end of the replay the route
\* has received exactly the cached text.
C13_AnswerCacheHit ==
    [][ /\ \A repo \in Repos :
              ((Generate(repo, TRUE) \/ Generate(repo, FALSE))
                  /\ CacheLookup("answer", repo, FALSE).some)
              => /\ generate_result' = Some(local["answer"][repo].value)
                 /\ llm_generate_calls' = llm_generate_calls
                 /\ local' = local
                 /\ redis' = redis
        /\ \A r \in Reqs :
              LET cached == CacheLookup("answer", AnswerDigest(r), FALSE)
              IN  /\ (gen_pc[r] = "lookup" /\ gen_pc'[r] \notin {"lookup", "aborted"}
                         /\ cached.some)
                      => /\ gen_pc'[r] = "replay"
                         /\ replay'[r] = cached.value
                         /\ full_response'[r] = <<>>
                         /\ local' = local
                  /\ gen_pc[r] = "replay"
                      => /\ cached.some
                         /\ full_response[r] \o replay[r] = cached.value
                         /\ gen_pc'[r] # "llm"
                         /\ pieces'[r] = <<>>
                         /\ llm_attempt'[r] = 0 /\ llm_plan'[r] = 0
                         /\ local'["answer"][AnswerDigest(r)] = local["answer"][AnswerDigest(r)]
                         /\ gen_pc'[r] = "finished" =>
                               /\ replay[r] = <<>>
                               /\ full_response'[r] = cached.value
                         /\ (gen_pc'[r] = "replay" /\ events'[r] # events[r]) =>
                               \E k \in 1..ReplayFragmentChars :
                                  /\ k <= Len(replay[r])
                                  /\ full_response'[r] = full_response[r] \o SubSeq(replay[r], 1, k)
                                  /\ replay'[r] = SubSeq(replay[r], k + 1, Len(replay[r]))
      ]_vars

\* The request replayed a cached answer of 700 characters in three fragments
\* and ended, and generate returned the cached answer without a model call.
C13_Witness ==
    /\ gen_pc["req-1"] = "finished"
    /\ Len(full_response["req-1"]) = MaxReplayChars
    /\ full_response["req-1"] = local["answer"]["repo-1"].value
    /\ Len(SelectSeq(events["req-1"], LAMBDA e : e = ContentEvent)) = 3
    /\ generate_result = Some(local["answer"]["repo-1"].value)
    /\ llm_generate_calls = 0

(***************************************************************************)
(* Properties of the model stream's retries, checked under Spec.           *)
(***************************************************************************)
\* C19: a failed attempt of the model stream is followed by a new attempt
\* only if no fragment has been emitted and no retry has been made before;
\* otherwise, and always once a fragment has been emitted, the failure makes
\* no new attempt and the inline error fragment is appended to the output.
C19_AtMostOneRetry ==
    [][ \A r \in Reqs :
          (\E n \in 0..MaxFragments : LlmFail(r, n)) =>
              IF ~llm_yielded[r] /\ llm_attempt[r] < 1
              THEN /\ llm_attempt'[r] = llm_attempt[r] + 1
                   /\ full_response'[r] = full_response[r]
              ELSE /\ llm_attempt'[r] = llm_attempt[r]
                   /\ gen_pc'[r] = "llm_returned"
                   /\ full_response'[r] = full_response[r] \o ErrorFragment
      ]_vars

\* C19 as the code has it: a failed attempt of the model stream is followed
\* by a new attempt only if no fragment has been emitted and fewer than two
\* retries have been made (three attempts in all); otherwise, and always once
\* a fragment has been emitted, the failure makes no new attempt and the
\* inline error fragment is appended to the output.
C19_AtMostTwoRetries ==
    [][ \A r \in Reqs :
          /\ (\E n \in 0..MaxFragments : LlmFail(r, n)) =>
                 IF ~llm_yielded[r] /\ llm_attempt[r] < 2
                 THEN /\ llm_attempt'[r] = llm_attempt[r] + 1
                      /\ full_response'[r] = full_response[r]
                 ELSE /\ llm_attempt'[r] = llm_attempt[r]
                      /\ gen_pc'[r] = "llm_returned"
                      /\ full_response'[r] = full_response[r] \o ErrorFragment
          /\ llm_attempt'[r] > llm_attempt[r] => ~llm_yielded[r] /\ llm_attempt'[r] <= 2
      ]_vars

\* The third attempt of a request failed before any fragment: the output is
\* the inline error fragment alone.
C19_Witness ==
    \E r \in Reqs :
        /\ gen_pc[r] = "llm_returned"
        /\ llm_attempt[r] = 2
        /\ ~llm_yielded[r]
        /\ full_response[r] = ErrorFragment

(***************************************************************************)
(* Intent tie-break and query expansion (ClassifySpec).                    *)
(***************************************************************************)

\* C21: in automatic classification with the tie-break enabled and the two
\* best scores equal and non-zero, the result is one of the intents tied at
\* the top score: an allowed literal the response contains, or, when the
\* response contains no allowed literal or the call fails, the deterministic
\* top candidate.  tied: the intents whose score equals the best score;
\* allowed: the literals the prompt allows, the tied intents among the first
\* three of the ordering.
C21_TiebreakAmongTied ==
    [][ ( /\ ret_pc = "idle"
          /\ ret_pc' = "classified"
          /\ ret_args'.mode = "auto"
          /\ settings.chat_intent_llm_tiebreak_enabled )
        => LET query == ret_args'.query
               ordered == ScoreIntents(query)
               tied == {ordered[k].intent :
                           k \in {j \in 1..Len(ordered) : ordered[j].score = ordered[1].score}}
               allowed == {ordered[k].intent :
                              k \in {j \in 1..3 : ordered[j].score = ordered[1].score}}
           IN  (ordered[1].score # 0 /\ ordered[2].score = ordered[1].score)
               => /\ intent' \in tied
                  /\ \A response \in {[failed |-> TRUE, mentions |-> {}]}
                                       \cup [failed : {FALSE}, mentions : SUBSET Intents] :
                        intent' = ClassifyIntentAsync(query, "auto", response)
                        => IF ~response.failed /\ response.mentions \cap allowed # {}
                           THEN intent' \in response.mentions \cap allowed
                           ELSE intent' = ordered[1].intent
      ]_vars

\* The tie between tech_stack and troubleshooting of "stack error" was
\* settled by the collaborator for the second of them.
C21_Witness ==
    /\ ret_pc = "classified"
    /\ settings.chat_intent_llm_tiebreak_enabled
    /\ ret_args.query = <<"stack", "error">>
    /\ ret_args.mode = "auto"
    /\ calls = <<"tiebreak">>
    /\ ScoreIntents(ret_args.query)[1].intent = "tech_stack"
    /\ intent = "troubleshooting"

\* C22: for every query and intent, the list expand returns starts with the
\* original query, contains no string twice and has at most 6 elements.
C22_ExpandShape ==
    ret_pc = "expanded" =>
        /\ Len(expanded_queries) >= 1
        /\ expanded_queries[1] = ret_args.query
        /\ \A j, k \in 1..Len(expanded_queries) :
               expanded_queries[j] = expanded_queries[k] => j = k
        /\ Len(expanded_queries) <= 6

\* A query that triggers three keywords was expanded to exactly six queries.
C22_Witness ==
    /\ ret_pc = "expanded"
    /\ ret_args.query = <<"how", "does", "auth", "error">>
    /\ intent = "implementation"
    /\ Len(expanded_queries) = 6

\* C23: for every query handled with overview intent, the list expand
\* returns has at least 2 queries and includes "<query> README overview",
\* whatever keyword expansions the query also triggers.
C23_OverviewHasReadmeVariant ==
    (ret_pc = "expanded" /\ intent = "overview") =>
        /\ Len(expanded_queries) >= 2
        /\ (ret_args.query \o <<"README", "overview">>) \in Range(expanded_queries)

(***************************************************************************)
(* Context assembly (ClassifySpec).                                        *)
(***************************************************************************)

\* C24: for every chunk list, the string _build_context returns for
\* max_chars is no longer than max_chars plus the length of the truncation
\* notice, and every fenced block opened in it is closed (the fence lines
\* pair up).
C24_ContextWithinBudget ==
    (ret_pc = "assembled" /\ context_args.max_chars # 0) =>
        /\ StringLen(context.value) <= context_args.max_chars + Notice.chars
        /\ Cardinality({k \in 1..Len(context.value) : context.value[k].kind = "fence"}) % 2 = 0

\* C25: when a chunk body would push the running total over max_chars, the
\* returned string holds exactly one truncation notice and nothing after it,
\* whichever file the overflow occurs in.  The bodies overflow exactly if
\* their lengths add up to more than the budget.
C25_SingleNoticeThenStop ==
    LET cs == context_args.chunks
        budget == IF context_args.max_chars # 0 THEN context_args.max_chars
                  ELSE ChatContextMaxChars
        RECURSIVE Bodies(_)
        Bodies(k) == IF k = 0 THEN 0 ELSE StringLen(Body(cs[k])) + Bodies(k - 1)
        notices == {k \in 1..Len(context.value) : context.value[k].kind = "notice"}
    IN  (ret_pc = "assembled" /\ Bodies(Len(cs)) > budget) =>
            notices = {Len(context.value)}

(***************************************************************************)
(* Grounding, merging and cache transparency of retrieve (RetrieveSpec).   *)
(***************************************************************************)

\* C26: the grounding label retrieve reports is determined by the intent and
\* the selected chunks: for overview, high if a selected chunk has a
\* documentation path (README.md and docs/guide.md in the store of the
\* model), medium if chunks are selected but none has one, low if nothing is
\* selected; for every other intent, high if any chunk is selected and low
\* otherwise.
C26_GroundingRule ==
    ret_result.some =>
        LET r == ret_result.value
            docs == \E k \in 1..Len(r.chunks) : r.chunks[k].id \in {"c1", "c4"}
        IN  r.diagnostics.grounding =
                IF r.intent = "overview"
                THEN IF docs THEN "high" ELSE IF r.chunks # <<>> THEN "medium" ELSE "low"
                ELSE IF r.chunks # <<>> THEN "high" ELSE "low"

\* An overview request selected one chunk, of a source file: medium.
C26_Witness ==
    /\ ret_result.some
    /\ ret_result.value.intent = "overview"
    /\ Len(ret_result.value.chunks) = 1
    /\ ret_result.value.chunks[1].file_path = "src/util.py"
    /\ ret_result.value.diagnostics.grounding = "medium"

\* C28: on a retrieval-cache miss, merging the result of an expanded query
\* into the candidates leaves every chunk id exactly once, each with the
\* highest score among the one it had and the one the result gives it (so,
\* from the empty set on, with the highest score any result gave it), and the
\* scores are the same whichever of two results is merged first.
C28_MergeKeepsHighest ==
    [][ \A results \in SearchResults :
          Search(TRUE, results) =>
            LET res == TakeChars(results, RetrievalLimit)
                pairs(cs) == {<<cs[k].id, cs[k].score>> : k \in 1..Len(cs)}
                given == pairs(all_chunks) \cup pairs(res)
                best(id) == CHOOSE x \in {p[2] : p \in {q \in given : q[1] = id}} :
                               \A p \in given : p[1] = id => x >= p[2]
            IN  /\ \A j, k \in 1..Len(all_chunks') :
                      all_chunks'[j].id = all_chunks'[k].id => j = k
                /\ pairs(all_chunks') = {<<p[1], best(p[1])>> : p \in given}
                /\ \A other \in SearchResults :
                      pairs(MergeResults(all_chunks', TakeChars(other, RetrievalLimit)))
                      = pairs(MergeResults(MergeResults(all_chunks,
                                                        TakeChars(other, RetrievalLimit)), res))
      ]_vars

\* Two searches gave c7 the scores 4 and 10 and c2 the scores 8 and 3: the
\* candidates hold all seven chunks, c7 with 10 and c2 with 8.
C28_Witness ==
    /\ ~cache_hit
    /\ Len(all_chunks) = 7
    /\ \E k \in 1..Len(all_chunks) : all_chunks[k].id = "c7" /\ all_chunks[k].score = 10
    /\ \E k \in 1..Len(all_chunks) : all_chunks[k].id = "c2" /\ all_chunks[k].score = 8

\* C30: with a store and a reranker that answer the same way every time,
\* retrieve returns for a query, a mode and a limit the chunks a computation
\* on a miss selects for that limit, whether the call was served from the
\* retrieval cache (then an earlier call, of whatever limit, wrote the entry)
\* or not.
C30_CacheTransparent ==
    [][ (ret_pc = "select" /\ ret_pc' = "returned") =>
          LET retrieval_limit == Max(ret_args.limit * 3, settings.chat_retrieval_candidate_limit)
              candidate_limit == Max(6, settings.chat_rerank_candidate_limit)
              found == TakeChars(SortByScore(MergeResults(<<>>, TakeChars(StoreChunks, retrieval_limit))),
                                 retrieval_limit)
              ordered ==
                 IF settings.chat_content_rerank_enabled /\ Len(found) > 5
                 THEN RerankChunks(TakeChars(found, candidate_limit),
                                   RerankResponse("object", "list", <<"c6", "c2">>, <<>>))
                      \o DropChars(found, candidate_limit)
                 ELSE found
          IN  ret_result'.value.chunks = TakeChars(ordered, ret_args.limit)
      ]_vars

\* The README chunk is ahead of the trivial chunk in the list hybrid_search
\* returned: wherever the trivial chunk stands, the README chunk stands before.
ReadmeAheadOfTrivial ==
    \A j \in 1..Len(boosted.value) :
       boosted.value[j].id = "trivial" =>
          \E i \in 1..(j - 1) : boosted.value[i].id = "docs"

\* hybrid_search ran under docs_first on results that hold the README
\* file-summary chunk (similarity 0.51) and the export-only file-summary chunk
\* (similarity 0.72), and the allowlist, if any, lets the README chunk through.
DocsFirstOnBoth ==
    /\ ret_pc = "searched"
    /\ hybrid_args.profile = "docs_first"
    /\ {"docs", "trivial"} \subseteq {r.id : r \in Range(hybrid_args.results)}
    /\ hybrid_args.path_allowlist \in {<<>>, <<"README">>, <<" ">>}

\* No term of the query occurs in the trivial chunk's path or content, and the
\* query holds none of the pattern words entry, config, route, model.
QueryMissesTrivial ==
    LET query_terms == NormalizeQueryTerms(hybrid_args.query_text)
        query_lower == LowerQuery(hybrid_args.query_text)
    IN  /\ \A i \in 1..Len(query_terms) :
              query_terms[i] \notin TextFacts("packages/ui/index.ts").sub
                                      \cup TextFacts("export {};").sub
        /\ \A i \in 1..Len(query_lower) :
              TextFacts(query_lower[i]).sub \cap {"entry", "config", "route", "model"} = {}

\* C27 (as amended): under the docs_first profile, for a query none of whose
\* terms occurs in the trivial chunk's path or content and that holds no
\* pattern word, hybrid_search ranks the README file-summary chunk of
\* similarity 0.51 before the export-only file-summary chunk of similarity
\* 0.72.
C27_ReadmeFirstWhenQueryMissesTrivial ==
    (DocsFirstOnBoth /\ QueryMissesTrivial) => ReadmeAheadOfTrivial

\* C27 (as stated): under the docs_first profile hybrid_search ranks the README
\* file-summary chunk of similarity 0.51 before the export-only file-summary
\* chunk of similarity 0.72, whatever the query.
C27_ReadmeFirstAnyQuery ==
    DocsFirstOnBoth => ReadmeAheadOfTrivial

\* The scenario's query under docs_first on the trivial, README and manifest
\* chunks: the README chunk is returned first and the trivial chunk last.
C27_Witness ==
    /\ DocsFirstOnBoth
    /\ QueryMissesTrivial
    /\ hybrid_args.query_text
         = <<"What", "are", "the", "main", "features", "of", "this", "application", "?">>
    /\ hybrid_args.limit = 3
    /\ [i \in 1..Len(hybrid_args.results) |-> hybrid_args.results[i].id]
         = <<"trivial", "docs", "manifest">>
    /\ [i \in 1..Len(boosted.value) |-> <<boosted.value[i].id, boosted.value[i].score>>]
         = << <<"docs", 5870>>, <<"manifest", 4010>>, <<"trivial", -1160>> >>

(***************************************************************************)
(* One chat request over the steps of its retrieval and its generation:    *)
(* rag.retrieve runs while the request awaits it and returns to the route   *)
(* what it returned or raised; the deadline or the consumer may end the     *)
(* request at every await.                                                  *)
(***************************************************************************)
CancelInit ==
    /\ TransparencyInit
    /\ settings.chat_intent_routing_enabled
    /\ ~settings.chat_intent_llm_tiebreak_enabled
    /\ settings.chat_docs_first_overview_enabled

CancelSpec ==
    /\ CancelInit
    /\ [][ \/ Start("req-1", "repo-1")
           \/ /\ pc["req-1"] = "retrieve"
              /\ RetrieveCall(<<"login", "handler">>, "auto", 3,
                              [failed |-> TRUE, mentions |-> {}])
           \/ pc["req-1"] = "retrieve" /\ RetrievalLookup
           \/ pc["req-1"] = "retrieve" /\ EmbedLookup
           \/ pc["req-1"] = "retrieve" /\ \E ok \in BOOLEAN : EmbedCall(ok)
           \/ pc["req-1"] = "retrieve" /\ \E ok \in BOOLEAN : Search(ok, StoreChunks)
           \/ pc["req-1"] = "retrieve" /\ RetrievalWrite
           \/ /\ pc["req-1"] = "retrieve"
              /\ \E response \in {RerankCallError,
                                   RerankResponse("object", "list", <<"c6", "c2">>, <<>>)} :
                    Rerank(response)
           \/ pc["req-1"] = "retrieve" /\ RetrieveReturn
           \/ ret_pc = "returned" /\ Retrieve("req-1", TRUE)
           \/ ret_pc = "raised" /\ Retrieve("req-1", FALSE)
           \/ AfterSources("req-1")
           \/ \E n \in 0..MaxFragments : GenLookup("req-1", FALSE, n)
           \/ LlmFragment("req-1")
           \/ \E n \in 0..MaxFragments : LlmFail("req-1", n)
           \/ \E commit_ok \in BOOLEAN : GenEnd("req-1", FALSE, commit_ok)
           \/ DeadlineTimeout("req-1")
           \/ Cancel("req-1")
           \/ Close("req-1") ]_vars

\* The request awaits a collaborator: the embedding service, the vector
\* search, the rerank call of the model, or the model's stream.
CallOutstanding(r) ==
    \/ /\ pc[r] = "retrieve"
       /\ \/ ret_pc \in {"embed_query", "search"}
          \/ /\ ret_pc = "rerank"
             /\ settings.chat_content_rerank_enabled
             /\ Len(SortedCandidates) > 5
    \/ pc[r] = "generating" /\ gen_pc[r] = "llm"

\* C29: when the deadline elapses or the caller cancels while the rerank,
\* embedding, search or generation call of a request is outstanding, no
\* fallback takes the cancellation for a failure of the call (no rerank result
\* in the original order, no inline error fragment, no retry): the step leaves
\* the pipeline where it was and ends the request, the caller's cancellation
\* releasing the permit at once; and from then on no collaborator call and no
\* cache call is made for the request, the only step left after the timeout
\* event being the end of the generator, which releases the permit.
C29_CancellationNotAbsorbed ==
    [][ LET r == "req-1"
        IN  /\ ( /\ CallOutstanding(r)
                 /\ \/ cancelled'[r] /\ ~cancelled[r]
                    \/ timed_out'[r] /\ ~timed_out[r] )
               => /\ pipelineVars' = pipelineVars
                  /\ cacheVars' = cacheVars
                  /\ llm_attempt'[r] = 0 /\ llm_plan'[r] = 0 /\ pieces'[r] = <<>>
                  /\ events'[r] = IF timed_out'[r] THEN Append(events[r], TimeoutError)
                                  ELSE events[r]
                  /\ pc'[r] = IF timed_out'[r] THEN "terminal" ELSE "closed"
                  /\ cancelled'[r] =>
                        /\ releases'[r] = 1
                        /\ semaphores'[req_sem[r]] = semaphores[req_sem[r]] + 1
            /\ (cancelled[r] \/ timed_out[r])
               => /\ pipelineVars' = pipelineVars
                  /\ cacheVars' = cacheVars
                  /\ genVars' = genVars
                  /\ events' = events
                  /\ pc[r] = "terminal" /\ pc'[r] = "closed"
                  /\ releases[r] = 0 /\ releases'[r] = 1
                  /\ semaphores'[req_sem[r]] = semaphores[req_sem[r]] + 1 ]_vars

\* The deadline elapsed while the rerank call was outstanding: the timeout
\* event was yielded, no rerank result exists, and the permit is back.
C29_Witness ==
    /\ timed_out["req-1"]
    /\ ret_pc = "rerank"
    /\ settings.chat_content_rerank_enabled
    /\ Len(SortedCandidates) > 5
    /\ ~rerank_output.some
    /\ "rerank" \notin Range(calls)
    /\ events["req-1"] = <<TimeoutError>>
    /\ pc["req-1"] = "closed"
    /\ releases["req-1"] = 1
    /\ semaphores[req_sem["req-1"]] = 1
====
